---- MODULE Spec2Model ----
(***************************************************************************)
(* A model of the exoplanet classification pipeline: the decision policy   *)
(* (probability and two thresholds -> class and confidence) and the        *)
(* catalog loader of the trainer.                                          *)
(*                                                                         *)
(* Floating point numbers are modelled as exact rationals <<n, d>> in      *)
(* lowest terms with d > 0; the three non-finite floats are the pairs with *)
(* denominator 0: NaN = <<0, 0>>, Inf = <<1, 0>>, NegInf = <<-1, 0>>.       *)
(* Python's None is "None" where a string is expected, NoFloat where a     *)
(* float is expected and NoClass where a class is expected.  Text read     *)
(* from a CSV file is a sequence of one-character strings.                 *)
(***************************************************************************)
EXTENDS Integers, Sequences, FiniteSets, TLC

VARIABLES
    call,       \* the decision-policy function last called, with its arguments
    ret,        \* what that call returned or raised
    spec,       \* load_mission: the MissionSpec being loaded (index in MISSION_SPECS)
    line,       \* load_mission: how many records the CSV reader has yielded
    raw,        \* load_mission: the CSV record the loop body last processed
    rows,       \* load_mission: the list of records kept so far
    steps,      \* load_mission: the statements of the loop body run on raw
    frames,     \* load_all_missions: mission name -> frame loaded for it
    training,   \* load_training_frame: the combined frame, or what it raised
    coerced,    \* the numeric coercion last called, its argument and result
    lgb,        \* training.lgb: TRUE when lightgbm was imported, FALSE when it is None
    config,     \* train_models: the TrainConfig
    datasets,   \* the frame load_mission returns for each entry of MISSION_SPECS
    data,       \* train_models: the training frame
    type_to_id, \* train_models: dataset type -> id, as a list of items
    split,      \* cross_validate_shared_model: val_idx of every fold
    folds,      \* cross_validate_shared_model: what each finished fold fitted
    final,      \* train_models: the pipelines and the model of the final fit
    files,      \* the model directory: file name -> what was dumped into it
    created,    \* how many estimator objects have been constructed
    pc,         \* train_models: the statement about to run
    raised,     \* train_models: the exception that left it, or None
    service,    \* the ModelService: not constructed, loaded, or what loading raised
    request,    \* ModelService.predict: its arguments df, format_name, hyperparams
    response,   \* ModelService.predict: the statements run, the matrix the model
                \* was queried with, and what predict returned or raised
    oracle,     \* the rows the shared model was asked about, each with the
                \* probability it answered
    replay,     \* what the latest call of predict with the arguments of the
                \* first call returned or raised
    global_model_service,
                \* the module global _model_service: 0 for None, else the
                \* number of the ModelService object it refers to
    instances,  \* how many ModelService objects were constructed
    loads,      \* how many times _load_artifacts was run
    callers     \* for every caller of get_model_service: the statement it
                \* is at, the calls it finished, the object it constructed,
                \* what its last call returned or raised

policyVars == <<call, ret>>
loaderVars == <<spec, line, raw, rows, steps, frames, training>>
coerceVars == <<coerced>>
trainerVars == <<lgb, config, datasets, data, type_to_id, split, folds, final,
                 files, created, pc, raised>>
serviceVars == <<service, request, response, oracle, replay>>
singletonVars == <<global_model_service, instances, loads, callers>>
vars == <<policyVars, loaderVars, coerceVars, trainerVars, serviceVars, singletonVars>>

None == "None"

-----------------------------------------------------------------------------
(* Bounds of the model.                                                    *)

\* thresholds are the multiples of 1/GridDen, probabilities of 1/(2*GridDen)
GridDen == 10
\* how many grid steps outside [0,1] thresholds and probabilities may lie
Pad == 2
\* a probability "just below/above" a point x is x -/+ 1/(2*GridDen*EpsDiv)
EpsDiv == 100

-----------------------------------------------------------------------------
(* Exact rational arithmetic standing for Python float arithmetic.         *)

Abs(n) == IF n < 0 THEN -n ELSE n

RECURSIVE GCD(_, _)
GCD(a, b) == IF b = 0 THEN a ELSE GCD(b, a % b)

\* the rational n/d (d # 0) in lowest terms with a positive denominator
R(n, d) ==
    LET g == GCD(Abs(n), Abs(d))
        s == IF d < 0 THEN -1 ELSE 1
    IN  <<(s * n) \div g, (s * d) \div g>>

RAdd(a, b) == R(a[1] * b[2] + b[1] * a[2], a[2] * b[2])
RSub(a, b) == R(a[1] * b[2] - b[1] * a[2], a[2] * b[2])
RMul(a, b) == R(a[1] * b[1], a[2] * b[2])
RDiv(a, b) == R(a[1] * b[2], a[2] * b[1])
RLt(a, b) == a[1] * b[2] < b[1] * a[2]
RLe(a, b) == a[1] * b[2] <= b[1] * a[2]
RGe(a, b) == RLe(b, a)
RGt(a, b) == RLt(b, a)

Zero == R(0, 1)
One == R(1, 1)
Two == R(2, 1)
Four == R(4, 1)

NaN == <<0, 0>>
Inf == <<1, 0>>
NegInf == <<0 - 1, 0>>
NonFinite == {NaN, Inf, NegInf}
NoFloat == <<>>
NoClass == 0 - 1

\* np.isfinite
IsFiniteOrInfinite(x) == x # NaN

IsFinite(x) == x \notin NonFinite

\* Python's  x >= t  for a float x that may be non-finite and a finite t:
\* every comparison with nan is False
FloatGe(x, t) ==
    CASE x = NaN -> FALSE
      [] x = Inf -> TRUE
      [] x = NegInf -> FALSE
      [] OTHER -> RGe(x, t)

\* np.clip(x, lo, hi) for finite x
ClipNone(x, lo, hi) == x

Clip(x, lo, hi) == IF RLt(x, lo) THEN lo ELSE IF RGt(x, hi) THEN hi ELSE x

-----------------------------------------------------------------------------
(* The decision policy: astrum_ai/common.py, astrum_ai/inference.py and    *)
(* backend/model_service.py.  A call either returns a value or raises.     *)

Return(v) == [raised |-> None, value |-> v]
Raise(e) == [raised |-> e, value |-> NoFloat]

\* the branch  prob < candidate
ConfidenceBelowCandidateFlipped(prob, candidate) ==
    IF RLe(candidate, Zero)
    THEN [early |-> TRUE, v |-> One]
    ELSE [early |-> FALSE, v |-> RDiv(prob, candidate)]

ConfidenceBelowCandidate(prob, candidate) ==
    IF RLe(candidate, Zero)
    THEN [early |-> TRUE, v |-> One]
    ELSE [early |-> FALSE, v |-> RSub(One, RDiv(prob, candidate))]

\* the branch  candidate <= prob < midpoint
ConfidenceLowerBandLinear(prob, candidate, midpoint) ==
    LET span == RSub(midpoint, candidate)
    IN  IF RLe(span, Zero)
        THEN [early |-> FALSE, v |-> Zero]
        ELSE [early |-> FALSE, v |-> RDiv(RSub(prob, candidate), span)]

ConfidenceLowerBand(prob, candidate, midpoint) ==
    LET span == RSub(midpoint, candidate)
    IN  IF RLe(span, Zero)
        THEN [early |-> FALSE, v |-> Zero]
        ELSE LET ratio == RDiv(RSub(prob, candidate), span)
             IN  [early |-> FALSE,
                  v |-> RMul(RMul(Four, ratio), RSub(One, ratio))]

\* the branch  midpoint <= prob < confirmed
ConfidenceUpperBandWholeSpan(prob, midpoint, confirmed) ==
    LET span == RSub(confirmed, midpoint)
    IN  IF RLe(span, Zero)
        THEN [early |-> FALSE, v |-> Zero]
        ELSE LET ratio == RDiv(RSub(prob, midpoint), RMul(Two, span))
             IN  [early |-> FALSE,
                  v |-> RMul(RMul(Four, ratio), RSub(One, ratio))]

ConfidenceUpperBand(prob, midpoint, confirmed) ==
    LET span == RSub(confirmed, midpoint)
    IN  IF RLe(span, Zero)
        THEN [early |-> FALSE, v |-> Zero]
        ELSE LET ratio == RDiv(RSub(prob, midpoint), span)
             IN  [early |-> FALSE,
                  v |-> RMul(RMul(Four, ratio), RSub(One, ratio))]

\* the branch  prob >= confirmed
ConfidenceConfirmedRaw(prob, confirmed) ==
    IF RGe(confirmed, One)
    THEN [early |-> TRUE, v |-> One]
    ELSE [early |-> FALSE, v |-> prob]

ConfidenceConfirmed(prob, confirmed) ==
    IF RGe(confirmed, One)
    THEN [early |-> TRUE, v |-> One]
    ELSE LET span == RSub(One, confirmed)
         IN  [early |-> FALSE,
              v |-> IF RGt(span, Zero)
                    THEN RDiv(RSub(prob, confirmed), span)
                    ELSE One]

\* astrum_ai.common.compute_confidence
compute_confidence(probability, candidate_threshold, confirmed_threshold) ==
    IF ~IsFinite(probability) THEN Return(Zero)
    ELSE IF RLe(confirmed_threshold, candidate_threshold)
    THEN Raise("ValueError")
    ELSE
    LET candidate == candidate_threshold
        confirmed == confirmed_threshold
        prob == Clip(probability, Zero, One)
        midpoint == RAdd(candidate, RDiv(RSub(confirmed, candidate), Two))
        branch ==
            IF RLt(prob, candidate)
            THEN ConfidenceBelowCandidate(prob, candidate)
            ELSE IF RLt(prob, midpoint)
            THEN ConfidenceLowerBand(prob, candidate, midpoint)
            ELSE IF RLt(prob, confirmed)
            THEN ConfidenceUpperBand(prob, midpoint, confirmed)
            ELSE ConfidenceConfirmed(prob, confirmed)
    IN  IF branch.early
        THEN Return(branch.v)
        ELSE Return(Clip(branch.v, Zero, One))

\* backend.model_service.compute_confidence (a second copy of the function)
ModelService_compute_confidence(probability, candidate_threshold, confirmed_threshold) ==
    IF ~IsFinite(probability) THEN Return(Zero)
    ELSE IF RLe(confirmed_threshold, candidate_threshold)
    THEN Raise("ValueError")
    ELSE
    LET candidate == candidate_threshold
        confirmed == confirmed_threshold
        prob == Clip(probability, Zero, One)
        midpoint == RAdd(candidate, RDiv(RSub(confirmed, candidate), Two))
    IN  IF RLt(prob, candidate)
        THEN IF RLe(candidate, Zero)
             THEN Return(One)
             ELSE Return(Clip(RSub(One, RDiv(prob, candidate)), Zero, One))
        ELSE IF RLt(prob, midpoint)
        THEN LET span == RSub(midpoint, candidate)
                 ratio == RDiv(RSub(prob, candidate), span)
             IN  IF RLe(span, Zero)
                 THEN Return(Clip(Zero, Zero, One))
                 ELSE Return(Clip(RMul(RMul(Four, ratio), RSub(One, ratio)),
                                  Zero, One))
        ELSE IF RLt(prob, confirmed)
        THEN LET span == RSub(confirmed, midpoint)
                 ratio == RDiv(RSub(prob, midpoint), span)
             IN  IF RLe(span, Zero)
                 THEN Return(Clip(Zero, Zero, One))
                 ELSE Return(Clip(RMul(RMul(Four, ratio), RSub(One, ratio)),
                                  Zero, One))
        ELSE IF RGe(confirmed, One)
             THEN Return(One)
             ELSE LET span == RSub(One, confirmed)
                  IN  Return(Clip(IF RGt(span, Zero)
                                  THEN RDiv(RSub(prob, confirmed), span)
                                  ELSE One,
                                  Zero, One))

\* backend.model_service.compute_confidence: which arm of its if-chain a
\* finite probability takes
ModelService_confidence_branch(probability, candidate_threshold, confirmed_threshold) ==
    LET prob == Clip(probability, Zero, One)
        midpoint == RAdd(candidate_threshold,
                         RDiv(RSub(confirmed_threshold, candidate_threshold), Two))
    IN  IF RLt(prob, candidate_threshold) THEN "below candidate"
        ELSE IF RLt(prob, midpoint) THEN "lower band"
        ELSE IF RLt(prob, confirmed_threshold) THEN "upper band"
        ELSE "confirmed"

\* astrum_ai.inference.assign_class
assign_class(probability, candidate_threshold, confirmed_threshold) ==
    IF FloatGe(probability, confirmed_threshold) THEN 2
    ELSE IF FloatGe(probability, candidate_threshold) THEN 1
    ELSE 0

\* ModelService._assign_class
ModelService_assign_class_strict(probability, candidate_threshold, confirmed_threshold) ==
    IF IsFinite(probability) /\ RGt(probability, confirmed_threshold) THEN 2
    ELSE IF IsFinite(probability) /\ RGt(probability, candidate_threshold) THEN 1
    ELSE IF probability = Inf THEN 2
    ELSE 0

ModelService_assign_class(probability, candidate_threshold, confirmed_threshold) ==
    IF FloatGe(probability, confirmed_threshold) THEN 2
    ELSE IF FloatGe(probability, candidate_threshold) THEN 1
    ELSE 0

\* ModelService.predict, for one probability the model returned: the class
\* and the confidence derived from it (the thresholds were validated before)
decision_policy(probability, candidate_threshold, confirmed_threshold) ==
    LET conf == ModelService_compute_confidence(
                    probability, candidate_threshold, confirmed_threshold)
    IN  [raised |-> conf.raised,
         class |-> ModelService_assign_class(
                       probability, candidate_threshold, confirmed_threshold),
         confidence |-> conf.value]

-----------------------------------------------------------------------------
(* The inputs the decision policy is exercised on.                          *)

Thresholds ==
    {R(k, GridDen) : k \in (0 - Pad)..(GridDen + Pad)} \cup {R(2, 5), R(7, 10)}

ProbabilityGrid ==
    {R(k, 2 * GridDen) : k \in (0 - 2 * Pad)..(2 * (GridDen + Pad))}
        \cup {R(1, 5), R(1, 2), R(11, 20), R(3, 4)}

Eps == R(1, 2 * GridDen * EpsDiv)

Probabilities ==
    ProbabilityGrid
        \cup {RAdd(x, Eps) : x \in ProbabilityGrid}
        \cup {RSub(x, Eps) : x \in ProbabilityGrid}
        \cup NonFinite

NoRet == [raised |-> None, class |-> NoClass, confidence |-> NoFloat]

Called(fn, p, c, f) ==
    [fn |-> fn, probability |-> p,
     candidate_threshold |-> c, confirmed_threshold |-> f]

PolicyUnchanged ==
    UNCHANGED <<loaderVars, coerceVars, trainerVars, serviceVars, singletonVars>>

\* a caller invokes astrum_ai.common.compute_confidence
CallComputeConfidence ==
    /\ call.fn = None
    /\ LET r == compute_confidence(call.probability, call.candidate_threshold,
                                   call.confirmed_threshold)
       IN  /\ call' = [call EXCEPT !.fn = "common.compute_confidence"]
           /\ ret' = [raised |-> r.raised, class |-> NoClass,
                      confidence |-> r.value]
    /\ PolicyUnchanged

\* a caller invokes backend.model_service.compute_confidence
CallServiceComputeConfidence ==
    /\ call.fn = None
    /\ LET r == ModelService_compute_confidence(
                    call.probability, call.candidate_threshold,
                    call.confirmed_threshold)
       IN  /\ call' = [call EXCEPT !.fn = "model_service.compute_confidence"]
           /\ ret' = [raised |-> r.raised, class |-> NoClass,
                      confidence |-> r.value]
    /\ PolicyUnchanged

\* a caller invokes astrum_ai.inference.assign_class
CallAssignClass ==
    /\ call.fn = None
    /\ call' = [call EXCEPT !.fn = "inference.assign_class"]
    /\ ret' = [raised |-> None,
               class |-> assign_class(call.probability, call.candidate_threshold,
                                      call.confirmed_threshold),
               confidence |-> NoFloat]
    /\ PolicyUnchanged

\* a caller invokes ModelService._assign_class
CallServiceAssignClass ==
    /\ call.fn = None
    /\ call' = [call EXCEPT !.fn = "ModelService._assign_class"]
    /\ ret' = [raised |-> None,
               class |-> ModelService_assign_class(
                             call.probability, call.candidate_threshold,
                             call.confirmed_threshold),
               confidence |-> NoFloat]
    /\ PolicyUnchanged

\* predict derives class and confidence for one probability; it has
\* rejected confirmed_threshold <= candidate_threshold before
CallDecisionPolicy ==
    /\ call.fn = None
    /\ RGt(call.confirmed_threshold, call.candidate_threshold)
    /\ call' = [call EXCEPT !.fn = "decision_policy"]
    /\ ret' = decision_policy(call.probability, call.candidate_threshold,
                              call.confirmed_threshold)
    /\ PolicyUnchanged

\* run_inference, for one probability the model returned: the thresholds are
\* validated first, the class is assign_class, and the column
\* predicted_confidence is the probability
run_inference_score(probability, candidate_threshold, confirmed_threshold) ==
    IF RLe(confirmed_threshold, candidate_threshold)
    THEN [raised |-> "ValueError", class |-> NoClass, confidence |-> NoFloat]
    ELSE [raised |-> None,
          class |-> assign_class(probability, candidate_threshold,
                                 confirmed_threshold),
          confidence |-> probability]

\* the CLI scores a row whose probability the model returned
CallRunInference ==
    /\ call.fn = None
    /\ call' = [call EXCEPT !.fn = "run_inference"]
    /\ ret' = run_inference_score(call.probability, call.candidate_threshold,
                                  call.confirmed_threshold)
    /\ PolicyUnchanged

NextPolicy ==
    \/ CallComputeConfidence
    \/ CallServiceComputeConfidence
    \/ CallAssignClass
    \/ CallServiceAssignClass
    \/ CallDecisionPolicy
    \/ CallRunInference

-----------------------------------------------------------------------------
(* Text: a Python str read from a CSV file is a sequence of one-character  *)
(* strings.  A value that is None is NoneCell.                             *)

NoneCell == <<"None">>

LowerLetters == <<"a", "b", "c", "d", "e", "f", "g", "h", "i", "j", "k", "l", "m",
                  "n", "o", "p", "q", "r", "s", "t", "u", "v", "w", "x", "y", "z">>
UpperLetters == <<"A", "B", "C", "D", "E", "F", "G", "H", "I", "J", "K", "L", "M",
                  "N", "O", "P", "Q", "R", "S", "T", "U", "V", "W", "X", "Y", "Z">>
Whitespace == {" ", "\t"}

\* str.upper, one character
UpperChar(ch) ==
    IF \E i \in 1..Len(LowerLetters) : LowerLetters[i] = ch
    THEN UpperLetters[CHOOSE i \in 1..Len(LowerLetters) : LowerLetters[i] = ch]
    ELSE ch

\* str.upper
StrUpperIdentity(text) == text

StrUpper(text) == [i \in 1..Len(text) |-> UpperChar(text[i])]

RECURSIVE LStrip(_)
LStrip(text) ==
    IF text # <<>> /\ Head(text) \in Whitespace THEN LStrip(Tail(text)) ELSE text

RECURSIVE RStrip(_)
RStrip(text) ==
    IF text # <<>> /\ text[Len(text)] \in Whitespace
    THEN RStrip(SubSeq(text, 1, Len(text) - 1))
    ELSE text

\* str.strip
StrStrip(text) == RStrip(LStrip(text))

\* (value or ""): None and the empty string both give the empty string
OrEmpty(value) == IF value = NoneCell \/ value = <<>> THEN <<>> ELSE value

\* the texts float() parses in this model, with their values; float() strips
\* surrounding whitespace first and raises ValueError on any other text
FloatLiterals ==
    << <<<<"3", ".", "5">>, R(7, 2)>>,
       <<<<"0">>, Zero>>,
       <<<<"-", "1">>, R(0 - 1, 1)>>,
       <<<<"n", "a", "n">>, NaN>>,
       <<<<"i", "n", "f">>, Inf>> >>

\* float(text): the value, or NoFloat when Python raises ValueError
PyFloat(text) ==
    LET t == StrStrip(text)
    IN  IF \E i \in 1..Len(FloatLiterals) : FloatLiterals[i][1] = t
        THEN FloatLiterals[CHOOSE i \in 1..Len(FloatLiterals) :
                               FloatLiterals[i][1] = t][2]
        ELSE NoFloat

\* astrum_ai.common.safe_float
safe_float(value) ==
    IF value = NoneCell \/ value = <<>>
    THEN NaN
    ELSE IF PyFloat(value) = NoFloat THEN NaN ELSE PyFloat(value)

\* np.isnan
IsNaN(x) == x = NaN

\* A value held by a cell of a pandas DataFrame, or handed to a coercion:
\* None, a str or a float.
NoneValue == [kind |-> "None", text |-> <<>>, number |-> NoFloat]
StrValue(text) == [kind |-> "str", text |-> text, number |-> NoFloat]
FloatValue(x) == [kind |-> "float", text |-> <<>>, number |-> x]

\* the value as csv.DictReader hands it over: None or a str
CsvCell(value) == IF value.kind = "None" THEN NoneCell ELSE value.text

\* pd.isna of a scalar
PdIsNa(value) ==
    value.kind = "None" \/ (value.kind = "float" /\ value.number = NaN)

\* float(value): the value, or NoFloat when Python raises ValueError
PyFloatOf(value) ==
    IF value.kind = "float" THEN value.number ELSE PyFloat(value.text)

\* astrum_ai.common.safe_float applied to a value; NoFloat stands for an
\* exception that leaves the function
safe_float_of(value) == safe_float(CsvCell(value))

ModelService_safe_float_unguarded(value) ==
    IF value.kind = "None" \/ value = StrValue(<<>>) \/ PdIsNa(value)
    THEN NaN
    ELSE PyFloatOf(value)

\* ModelService._safe_float
ModelService_safe_float(value) ==
    IF value.kind = "None" \/ value = StrValue(<<>>) \/ PdIsNa(value)
    THEN NaN
    ELSE IF PyFloatOf(value) = NoFloat THEN NaN ELSE PyFloatOf(value)

-----------------------------------------------------------------------------
(* The catalog configuration: astrum_ai/common.py.                          *)

FEATURE_COLUMNS ==
    <<"orbital_period",
      "transit_duration",
      "transit_depth",
      "impact_parameter",
      "eccentricity",
      "inclination",
      "planet_radius",
      "planet_equilibrium_temp",
      "insolation_flux",
      "stellar_temp",
      "stellar_logg",
      "stellar_radius",
      "stellar_mass",
      "stellar_metallicity">>

\* a dict literal is the sequence of its <<key, value>> items, in order
KeplerFeatureMap ==
    <<<<"orbital_period", "koi_period">>,
      <<"transit_duration", "koi_duration">>,
      <<"transit_depth", "koi_depth">>,
      <<"impact_parameter", "koi_impact">>,
      <<"eccentricity", "koi_eccen">>,
      <<"inclination", "koi_incl">>,
      <<"planet_radius", "koi_prad">>,
      <<"planet_equilibrium_temp", "koi_teq">>,
      <<"insolation_flux", "koi_insol">>,
      <<"stellar_temp", "koi_steff">>,
      <<"stellar_logg", "koi_slogg">>,
      <<"stellar_radius", "koi_srad">>,
      <<"stellar_mass", "koi_smass">>,
      <<"stellar_metallicity", "koi_smet">>>>

ToiK2FeatureMap ==
    <<<<"orbital_period", "pl_orbper">>,
      <<"transit_duration", "pl_trandur">>,
      <<"transit_depth", "pl_trandep">>,
      <<"impact_parameter", "pl_imppar">>,
      <<"eccentricity", "pl_orbeccen">>,
      <<"inclination", "pl_orbincl">>,
      <<"planet_radius", "pl_rade">>,
      <<"planet_equilibrium_temp", "pl_eqt">>,
      <<"insolation_flux", "pl_insol">>,
      <<"stellar_temp", "st_teff">>,
      <<"stellar_logg", "st_logg">>,
      <<"stellar_radius", "st_rad">>,
      <<"stellar_mass", "st_mass">>,
      <<"stellar_metallicity", "st_met">>>>

MISSION_SPECS ==
    << [name |-> "kepler",
        filename |-> "kepler.csv",
        label_field |-> "koi_disposition",
        positive_labels |-> {<<"C", "O", "N", "F", "I", "R", "M", "E", "D">>},
        negative_labels |-> {<<"F", "A", "L", "S", "E", " ", "P", "O", "S", "I", "T", "I", "V", "E">>},
        candidate_labels |-> {<<"C", "A", "N", "D", "I", "D", "A", "T", "E">>},
        feature_map |-> KeplerFeatureMap,
        dataset_type |-> "kepler",
        requires_default_flag |-> FALSE],
       [name |-> "k2",
        filename |-> "k2.csv",
        label_field |-> "disposition",
        positive_labels |-> {<<"C", "O", "N", "F", "I", "R", "M", "E", "D">>},
        negative_labels |-> {<<"F", "A", "L", "S", "E", " ", "P", "O", "S", "I", "T", "I", "V", "E">>,
                             <<"R", "E", "F", "U", "T", "E", "D">>},
        candidate_labels |-> {<<"C", "A", "N", "D", "I", "D", "A", "T", "E">>},
        feature_map |-> ToiK2FeatureMap,
        dataset_type |-> "toi_k2",
        requires_default_flag |-> TRUE],
       [name |-> "toi",
        filename |-> "toi.csv",
        label_field |-> "tfopwg_disp",
        positive_labels |-> {<<"C", "P">>, <<"K", "P">>},
        negative_labels |-> {<<"F", "P">>, <<"F", "A">>},
        candidate_labels |-> {<<"P", "C">>, <<"A", "P", "C">>},
        feature_map |-> ToiK2FeatureMap,
        dataset_type |-> "toi_k2",
        requires_default_flag |-> FALSE] >>

\* the keys and the values of a dict literal
Keys(items) == {items[i][1] : i \in 1..Len(items)}
Values(items) == {items[i][2] : i \in 1..Len(items)}
\* items[key]
Item(items, key) == items[CHOOSE i \in 1..Len(items) : items[i][1] = key][2]

\* raw.get(column): a record is a function from column names to texts
RawGet(record, column) ==
    IF column \in DOMAIN record THEN record[column] ELSE NoneCell

-----------------------------------------------------------------------------
(* The loader of the trainer: astrum_ai/training.py.                        *)

DefaultFlagValues == {<<"1">>, <<"T", "R", "U", "E">>, <<"t", "r", "u", "e">>}

PassesDefaultFlagAlways(ms, record) == TRUE

\* load_mission: the default_flag gate of a catalog that requires it
PassesDefaultFlag(ms, record) ==
    ms.requires_default_flag =>
        StrStrip(OrEmpty(RawGet(record, "default_flag"))) \in DefaultFlagValues

\* load_mission: label_value
LabelValue(ms, record) ==
    StrUpper(StrStrip(OrEmpty(RawGet(record, ms.label_field))))

\* load_mission: the label and the candidate flag of a label value, or no
\* example (keep = FALSE)
NoExample == [keep |-> FALSE, label |-> 0, is_candidate |-> FALSE]

ResolveLabelDefaultNegative(ms, label_value) ==
    IF label_value \in ms.positive_labels
    THEN [keep |-> TRUE, label |-> 1, is_candidate |-> FALSE]
    ELSE IF label_value \in ms.candidate_labels
    THEN [keep |-> TRUE, label |-> 1, is_candidate |-> TRUE]
    ELSE [keep |-> TRUE, label |-> 0, is_candidate |-> FALSE]

ResolveLabelCandidateUnflagged(ms, label_value) ==
    IF label_value = <<>> THEN NoExample
    ELSE IF label_value \in ms.positive_labels \cup ms.candidate_labels
    THEN [keep |-> TRUE, label |-> 1, is_candidate |-> FALSE]
    ELSE IF label_value \in ms.negative_labels
    THEN [keep |-> TRUE, label |-> 0, is_candidate |-> FALSE]
    ELSE NoExample

ResolveLabel(ms, label_value) ==
    IF label_value = <<>> THEN NoExample
    ELSE IF label_value \in ms.positive_labels
    THEN [keep |-> TRUE, label |-> 1, is_candidate |-> FALSE]
    ELSE IF label_value \in ms.negative_labels
    THEN [keep |-> TRUE, label |-> 0, is_candidate |-> FALSE]
    ELSE IF label_value \in ms.candidate_labels
    THEN [keep |-> TRUE, label |-> 1, is_candidate |-> TRUE]
    ELSE NoExample

\* load_mission: record = {feature: safe_float(raw.get(source)) ...}
ExtractFeatures(ms, record) ==
    [feature \in Keys(ms.feature_map) |->
        safe_float(RawGet(record, Item(ms.feature_map, feature)))]

\* load_mission: all(np.isnan(value) for value in record.values())
AnyMissing(features) == \E feature \in DOMAIN features : IsNaN(features[feature])

AllMissing(features) == \A feature \in DOMAIN features : IsNaN(features[feature])

\* load_mission: the body of the loop over the CSV records; the rows kept
\* after the record has been processed
load_mission_record(ms, record, kept) ==
    IF ~PassesDefaultFlag(ms, record) THEN kept
    ELSE
    LET label_value == LabelValue(ms, record)
        resolved == ResolveLabel(ms, label_value)
        features == ExtractFeatures(ms, record)
    IN  IF ~resolved.keep THEN kept
        ELSE IF AllMissing(features) THEN kept
        ELSE Append(kept, [features |-> features,
                           label |-> resolved.label,
                           is_candidate |-> resolved.is_candidate,
                           mission |-> ms.name,
                           dataset_type |-> ms.dataset_type,
                           disposition |-> label_value])

\* load_mission: the statements of the loop body that run on a record, in the
\* order they run; every `continue` ends the list
load_mission_steps(ms, record) ==
    LET flag == IF ms.requires_default_flag THEN <<"default_flag">> ELSE <<>>
        label_value == LabelValue(ms, record)
    IN  IF ~PassesDefaultFlag(ms, record) THEN flag
        ELSE IF label_value = <<>> THEN flag \o <<"label_value">>
        ELSE IF ~ResolveLabel(ms, label_value).keep
        THEN flag \o <<"label_value", "label">>
        ELSE IF AllMissing(ExtractFeatures(ms, record))
        THEN flag \o <<"label_value", "label", "safe_float">>
        ELSE flag \o <<"label_value", "label", "safe_float", "append">>

\* load_mission on a whole file: the rows of the frame it returns
RECURSIVE load_mission_from(_, _, _)
load_mission_from(ms, records, kept) ==
    IF records = <<>> THEN kept
    ELSE load_mission_from(ms, Tail(records),
                           load_mission_record(ms, Head(records), kept))

load_mission(ms, records) == load_mission_from(ms, records, <<>>)

\* pd.concat of a list of frames
RECURSIVE Concat(_)
Concat(list) == IF list = <<>> THEN <<>> ELSE Head(list) \o Concat(Tail(list))

\* load_all_missions, given the frame load_mission returned for each spec:
\* the dict of the frames that are not empty, or the error raised
load_all_missions(loaded) ==
    LET nonempty == SelectSeq([i \in 1..Len(MISSION_SPECS) |->
                                  <<MISSION_SPECS[i].name, loaded[i]>>],
                              LAMBDA item : item[2] # <<>>)
    IN  IF nonempty = <<>>
        THEN [raised |-> "RuntimeError", frames |-> <<>>]
        ELSE [raised |-> None, frames |-> nonempty]

\* frame if include_candidates else frame[~frame["is_candidate"]]
FilterCandidatesNever(frame, include_candidates) == frame

FilterCandidates(frame, include_candidates) ==
    IF include_candidates
    THEN frame
    ELSE SelectSeq(frame, LAMBDA row : ~row.is_candidate)

\* combined[FEATURE_COLUMNS + ["label", ...]]
SelectColumns(row) ==
    [row EXCEPT !.features =
        [feature \in {FEATURE_COLUMNS[i] : i \in 1..Len(FEATURE_COLUMNS)} |->
            row.features[feature]]]

\* load_training_frame, given the dict load_all_missions returned
load_training_frame(mission_frames, include_candidates) ==
    LET filtered == [i \in 1..Len(mission_frames) |->
                        FilterCandidates(mission_frames[i][2], include_candidates)]
        processed == SelectSeq(filtered, LAMBDA frame : frame # <<>>)
        combined == Concat(processed)
    IN  IF processed = <<>>
        THEN [raised |-> "RuntimeError", frame |-> <<>>]
        ELSE [raised |-> None,
              frame |-> [i \in 1..Len(combined) |-> SelectColumns(combined[i])]]

-----------------------------------------------------------------------------
(* The CSV records the loader is exercised on.                              *)

\* how many records the file read record by record holds at most
MaxRecords == 2

FlagCells == {NoneCell, <<"1">>, <<"0">>}

LabelCells ==
    {NoneCell, <<>>,
     <<" ", "c", "o", "n", "f", "i", "r", "m", "e", "d", " ">>,
     <<"F", "A", "L", "S", "E", " ", "P", "O", "S", "I", "T", "I", "V", "E">>,
     <<"C", "a", "n", "d", "i", "d", "a", "t", "e">>,
     <<"R", "E", "F", "U", "T", "E", "D">>,
     <<"C", "P">>, <<"F", "A">>, <<"a", "p", "c">>,
     <<"U", "N", "K", "N", "O", "W", "N">>}

\* feature cells that safe_float turns into NaN
MissingCells == <<NoneCell, <<>>, <<"a", "b", "c">>, <<"n", "a", "n">>>>

\* the positions in FEATURE_COLUMNS of the features that are the only one
\* present in some record
SampledFeatures == {1, 14}

Position(feature) == CHOOSE k \in 1..Len(FEATURE_COLUMNS) : FEATURE_COLUMNS[k] = feature
SourceOf(ms) == [column \in Values(ms.feature_map) |->
    CHOOSE feature \in Keys(ms.feature_map) : Item(ms.feature_map, feature) = column]

\* the feature cells of a record: all absent, every kind of missing cell in
\* turn, all infinite, or a single number
FeaturePatterns(ms) ==
    {[column \in Values(ms.feature_map) |-> NoneCell],
     [column \in Values(ms.feature_map) |->
        MissingCells[(Position(SourceOf(ms)[column]) % Len(MissingCells)) + 1]],
     [column \in Values(ms.feature_map) |-> <<"i", "n", "f">>]}
    \cup
    {[column \in Values(ms.feature_map) |->
        IF column = Item(ms.feature_map, FEATURE_COLUMNS[k])
        THEN <<"3", ".", "5">> ELSE NoneCell] : k \in SampledFeatures}

MakeRecord(ms, flag, label, cells) ==
    [column \in {"default_flag", ms.label_field} \cup Values(ms.feature_map) |->
        IF column = "default_flag" THEN flag
        ELSE IF column = ms.label_field THEN label
        ELSE cells[column]]

RawRecords(ms) ==
    {MakeRecord(ms, flag, label, cells) :
        flag \in FlagCells, label \in LabelCells, cells \in FeaturePatterns(ms)}

\* the files of the missions other than the one read record by record: empty,
\* or one record with a number in every feature
OtherFiles(ms) ==
    {<<>>} \cup
    {<<MakeRecord(ms, <<"1">>, label,
                  [column \in Values(ms.feature_map) |-> <<"3", ".", "5">>])>> :
        label \in {<<"C", "O", "N", "F", "I", "R", "M", "E", "D">>, <<"C", "A", "N", "D", "I", "D", "A", "T", "E">>, <<"P", "C">>}}

\* the same sets, for each entry of MISSION_SPECS
RawRecordsOf == [i \in 1..Len(MISSION_SPECS) |-> RawRecords(MISSION_SPECS[i])]
\* the frames load_mission returns for the other missions' files
OtherFramesOf ==
    [i \in 1..Len(MISSION_SPECS) |->
        {load_mission(MISSION_SPECS[i], file) : file \in OtherFiles(MISSION_SPECS[i])}]

NoRecord == <<>>
NotLoaded == [phase |-> "load_mission", include_candidates |-> FALSE,
              raised |-> None, frame |-> <<>>]

LoaderUnchanged ==
    UNCHANGED <<policyVars, coerceVars, trainerVars, serviceVars, singletonVars>>

\* load_mission: one turn of the loop over the records of the file
ReadRecord ==
    /\ spec \in 1..Len(MISSION_SPECS)
    /\ training.phase = "load_mission"
    /\ line < MaxRecords
    /\ line' = line + 1
    /\ \E record \in RawRecordsOf[spec] :
          /\ raw' = record
          /\ rows' = load_mission_record(MISSION_SPECS[spec], record, rows)
          /\ steps' = load_mission_steps(MISSION_SPECS[spec], record)
    /\ UNCHANGED <<spec, frames, training>>
    /\ LoaderUnchanged

\* load_mission: the file has no more records and the frame is returned to
\* load_all_missions
EndOfFile ==
    /\ spec \in 1..Len(MISSION_SPECS)
    /\ training.phase = "load_mission"
    /\ training' = [training EXCEPT !.phase = "load_all_missions"]
    /\ raw' = NoRecord
    /\ steps' = <<>>
    /\ UNCHANGED <<spec, line, rows, frames>>
    /\ LoaderUnchanged

\* load_training_frame: load_all_missions loads the other missions' files
\* too, then the frames are filtered and combined
LoadTrainingFrame ==
    /\ training.phase = "load_all_missions"
    /\ \E include_candidates \in BOOLEAN,
          first \in (IF spec = 1 THEN {rows} ELSE OtherFramesOf[1]),
          second \in (IF spec = 2 THEN {rows} ELSE OtherFramesOf[2]),
          third \in (IF spec = 3 THEN {rows} ELSE OtherFramesOf[3]) :
          LET missions == load_all_missions(<<first, second, third>>)
              result == load_training_frame(missions.frames, include_candidates)
          IN  /\ frames' = missions.frames
              /\ training' =
                     IF missions.raised # None
                     THEN [phase |-> "done",
                           include_candidates |-> include_candidates,
                           raised |-> missions.raised, frame |-> <<>>]
                     ELSE [phase |-> "done",
                           include_candidates |-> include_candidates,
                           raised |-> result.raised, frame |-> result.frame]
    /\ UNCHANGED <<spec, line, raw, rows, steps>>
    /\ LoaderUnchanged

NextLoader ==
    \/ ReadRecord
    \/ EndOfFile
    \/ LoadTrainingFrame

-----------------------------------------------------------------------------
IdleLoader ==
    /\ spec = 0 /\ line = 0 /\ raw = NoRecord /\ rows = <<>> /\ frames = <<>>
    /\ steps = <<>>
    /\ training = NotLoaded

IdlePolicy ==
    /\ call = Called(None, NoFloat, NoFloat, NoFloat)
    /\ ret = NoRet

IdleCoerce ==
    coerced = [fn |-> None, value |-> NoneValue, raised |-> None, result |-> NoFloat]

\* no estimator, no fitted object
NoObject == [id |-> 0, kind |-> None, fitted_on |-> {}]
NoFinal == [pipelines |-> <<>>, model |-> NoObject, X_all |-> <<>>]

IdleTrainer ==
    /\ lgb = FALSE
    /\ config = [include_candidates |-> FALSE, n_splits |-> 0]
    /\ datasets = <<>>
    /\ data = <<>>
    /\ type_to_id = <<>>
    /\ split = <<>>
    /\ folds = <<>>
    /\ final = NoFinal
    /\ files = <<>>
    /\ created = 0
    /\ pc = None
    /\ raised = None

\* ModelService.__init__ before _load_artifacts: no model, no pipelines, no
\* ids, the module's FEATURE_COLUMNS
\* backend/model_service.py: FEATURE_COLUMNS
ModelService_FEATURE_COLUMNS ==
    <<"orbital_period",
      "transit_duration",
      "transit_depth",
      "impact_parameter",
      "eccentricity",
      "inclination",
      "planet_radius",
      "planet_equilibrium_temp",
      "insolation_flux",
      "stellar_temp",
      "stellar_logg",
      "stellar_radius",
      "stellar_mass",
      "stellar_metallicity">>

\* backend/model_service.py: _TOI_K2_FEATURE_MAP
ModelService_TOI_K2_FEATURE_MAP ==
    <<<<"orbital_period", "pl_orbper">>,
      <<"transit_duration", "pl_trandur">>,
      <<"transit_depth", "pl_trandep">>,
      <<"impact_parameter", "pl_imppar">>,
      <<"eccentricity", "pl_orbeccen">>,
      <<"inclination", "pl_orbincl">>,
      <<"planet_radius", "pl_rade">>,
      <<"planet_equilibrium_temp", "pl_eqt">>,
      <<"insolation_flux", "pl_insol">>,
      <<"stellar_temp", "st_teff">>,
      <<"stellar_logg", "st_logg">>,
      <<"stellar_radius", "st_rad">>,
      <<"stellar_mass", "st_mass">>,
      <<"stellar_metallicity", "st_met">>>>

\* backend/model_service.py: FEATURE_MAPS["kepler"]
ModelService_KeplerFeatureMap ==
    <<<<"orbital_period", "koi_period">>,
      <<"transit_duration", "koi_duration">>,
      <<"transit_depth", "koi_depth">>,
      <<"impact_parameter", "koi_impact">>,
      <<"eccentricity", "koi_eccen">>,
      <<"inclination", "koi_incl">>,
      <<"planet_radius", "koi_prad">>,
      <<"planet_equilibrium_temp", "koi_teq">>,
      <<"insolation_flux", "koi_insol">>,
      <<"stellar_temp", "koi_steff">>,
      <<"stellar_logg", "koi_slogg">>,
      <<"stellar_radius", "koi_srad">>,
      <<"stellar_mass", "koi_smass">>,
      <<"stellar_metallicity", "koi_smet">>>>

NoModel == [kind |-> None, fitted_on |-> {}]
NoService ==
    [state |-> "none", raised |-> None, model |-> NoModel, pipelines |-> <<>>,
     type_to_id |-> <<>>, feature_columns |-> ModelService_FEATURE_COLUMNS]
NoFrame == [columns |-> {}, rows |-> <<>>]
NoRequest == [format_name |-> None, hyperparams |-> <<>>, df |-> NoFrame]
NoResponse ==
    [state |-> "none", raised |-> None, steps |-> <<>>, features_prepared |-> <<>>,
     probabilities |-> <<>>, classes |-> <<>>, confidences |-> <<>>, ids |-> <<>>,
     columns |-> {}]

\* how many callers of get_model_service there are at most, and how many
\* calls each of them makes at most
MaxCallers == 2
MaxCalls == 2
Callers == 1..MaxCallers

NoCaller == [pc |-> "idle", calls |-> 0, made |-> 0, result |-> 0, raised |-> None]

IdleSingleton ==
    /\ global_model_service = 0
    /\ instances = 0
    /\ loads = 0
    /\ callers = [c \in Callers |-> NoCaller]

IdleService ==
    /\ service = NoService
    /\ request = NoRequest
    /\ response = NoResponse
    /\ oracle = {}
    /\ replay = NoResponse

\* the decision policy is about to be called on some probability and thresholds
InitPolicy ==
    /\ call \in {Called(None, p, c, f) :
                    p \in Probabilities, c \in Thresholds, f \in Thresholds}
    /\ ret = NoRet
    /\ IdleLoader
    /\ IdleCoerce
    /\ IdleTrainer
    /\ IdleService
    /\ IdleSingleton

SpecPolicy == InitPolicy /\ [][NextPolicy]_vars

\* load_mission is about to read the file of one of the three catalogs
InitLoader ==
    /\ spec \in 1..Len(MISSION_SPECS)
    /\ line = 0
    /\ raw = NoRecord
    /\ rows = <<>>
    /\ steps = <<>>
    /\ frames = <<>>
    /\ training = NotLoaded
    /\ IdlePolicy
    /\ IdleCoerce
    /\ IdleTrainer
    /\ IdleService
    /\ IdleSingleton

SpecLoader == InitLoader /\ [][NextLoader]_vars

-----------------------------------------------------------------------------
(* The numeric coercions called on their own.                               *)

Paddings == {<<>>, <<" ">>, <<"\t">>}

\* texts float() parses, and texts it does not
NumericBodies == {FloatLiterals[i][1] : i \in 1..Len(FloatLiterals)}
OtherBodies ==
    {<<>>, <<"a", "b", "c">>, <<"3", ".", "5", ".", "1">>, <<"-">>,
     <<"3", ",", "5">>, <<"3", " ", "5">>, <<"N", "o", "n", "e">>}

Texts ==
    {before \o body \o after :
        before \in Paddings, after \in Paddings,
        body \in NumericBodies \cup OtherBodies}

\* the values a coercion is called on: None, texts, floats
Values_ ==
    {NoneValue} \cup {StrValue(text) : text \in Texts}
    \cup {FloatValue(x) : x \in NonFinite \cup {Zero, R(7, 2), R(0 - 1, 1)}}

CoercionResult(fn, value, result) ==
    [fn |-> fn, value |-> value,
     raised |-> IF result = NoFloat THEN "ValueError" ELSE None,
     result |-> result]

CoerceUnchanged ==
    UNCHANGED <<policyVars, loaderVars, trainerVars, serviceVars, singletonVars>>

\* safe_float is called on a cell of a CSV record
CallSafeFloat ==
    /\ coerced.fn = None
    /\ coerced.value.kind \in {"None", "str"}
    /\ coerced' = CoercionResult("common.safe_float", coerced.value,
                                 safe_float_of(coerced.value))
    /\ CoerceUnchanged

\* ModelService._safe_float is called on a cell of the input table
CallServiceSafeFloat ==
    /\ coerced.fn = None
    /\ coerced' = CoercionResult("ModelService._safe_float", coerced.value,
                                 ModelService_safe_float(coerced.value))
    /\ CoerceUnchanged

NextCoerce ==
    \/ CallSafeFloat
    \/ CallServiceSafeFloat

\* a coercion is about to be called on some value
InitCoerce ==
    /\ coerced \in {[fn |-> None, value |-> value, raised |-> None,
                     result |-> NoFloat] : value \in Values_}
    /\ IdlePolicy
    /\ IdleLoader
    /\ IdleTrainer
    /\ IdleService
    /\ IdleSingleton

SpecCoerce == InitCoerce /\ [][NextCoerce]_vars

\* the argument is absent, the empty string or a text float() does not parse
AbsentEmptyOrUnparseable(value) ==
    \/ value.kind = "None"
    \/ value.kind = "str" /\ value.text = <<>>
    \/ value.kind = "str" /\ StrStrip(value.text) \notin NumericBodies
NumericText(value) ==
    value.kind = "str" /\ StrStrip(value.text) \in NumericBodies
ParsedNumber(text) ==
    FloatLiterals[CHOOSE i \in 1..Len(FloatLiterals) :
                      FloatLiterals[i][1] = StrStrip(text)][2]

\* C13: safe_float and ModelService._safe_float never raise and return a
\* float for every argument; None, the empty string and a text that float()
\* does not parse give NaN ('missing'); a numeric text gives the parsed number.
C13_CoercionTotal ==
    coerced.fn # None =>
        /\ coerced.raised = None
        /\ coerced.result # NoFloat
        /\ AbsentEmptyOrUnparseable(coerced.value) => coerced.result = NaN
        /\ NumericText(coerced.value) =>
               coerced.result = ParsedNumber(coerced.value.text)

\* ModelService._safe_float was called on a padded text that is not a number
C13_Witness ==
    /\ coerced.fn = "ModelService._safe_float"
    /\ coerced.value = StrValue(<<" ", "a", "b", "c", "\t">>)
    /\ coerced.result = NaN
    /\ coerced.raised = None

-----------------------------------------------------------------------------
(* The trainer: astrum_ai/training.py, train_models.  A dict is the list   *)
(* of its items in insertion order; an estimator is a record with the id   *)
(* of the Python object, its kind and the rows it was fitted on.           *)

\* the dataset types in Python's order of str ("k" < "t")
DatasetTypeOrder == <<"kepler", "toi_k2">>

\* the indices of idx in ascending order: the index arrays of a fold
IndexSeq(idx, n) == SelectSeq([i \in 1..n |-> i], LAMBDA i : i \in idx)

\* dataset_types[idx]
DatasetTypes(frame, idx) ==
    LET order == IndexSeq(idx, Len(frame))
    IN  [k \in 1..Len(order) |-> frame[order[k]].dataset_type]

\* the distinct elements of a list in the order they first appear
RECURSIVE FirstSeen(_)
FirstSeen(list) ==
    IF list = <<>> THEN <<>>
    ELSE LET front == FirstSeen(SubSeq(list, 1, Len(list) - 1))
             last == list[Len(list)]
         IN  IF \E i \in 1..Len(front) : front[i] = last
             THEN front ELSE Append(front, last)

\* sorted(set(dataset_types))
SortedUnique(dataset_types) ==
    SelectSeq(DatasetTypeOrder,
              LAMBDA dtype : \E i \in 1..Len(dataset_types) : dataset_types[i] = dtype)

\* {dtype: idx for idx, dtype in enumerate(unique_types)}
Enumerate(unique_types) ==
    [i \in 1..Len(unique_types) |-> <<unique_types[i], i - 1>>]

TypeToIdFirstSeen(dataset_types) == Enumerate(FirstSeen(dataset_types))

\* train_models: unique_types and type_to_id
TypeToId(dataset_types) == Enumerate(SortedUnique(dataset_types))

\* build_preprocessor: the steps of the Pipeline it builds
PreprocessorSteps(dataset_type) ==
    IF dataset_type = "kepler"
    THEN << <<"imputer", [estimator |-> "SimpleImputer", strategy |-> "median"]>>,
            <<"scaler", [estimator |-> "StandardScaler"]>> >>
    ELSE << <<"imputer", [estimator |-> "SimpleImputer", strategy |-> "median"]>>,
            <<"scaler", [estimator |-> "RobustScaler",
                         quantile_range |-> <<10, 90>>]>> >>

build_preprocessor_robust(dataset_type, id) ==
    [id |-> id, kind |-> "RobustScaler", fitted_on |-> {}]

\* build_preprocessor: a new, unfitted Pipeline, named after its scaler
build_preprocessor(dataset_type, id) ==
    [id |-> id,
     kind |-> PreprocessorSteps(dataset_type)[2][2].estimator,
     fitted_on |-> {}]

fit_group_pipelines_whole_frame(frame, idx, first_id) ==
    LET unique_types == SortedUnique(DatasetTypes(frame, idx))
    IN  [raised |-> IF unique_types = <<>> THEN "RuntimeError" ELSE None,
         pipelines |->
            [k \in 1..Len(unique_types) |->
                <<unique_types[k],
                  [build_preprocessor(unique_types[k], first_id + k)
                      EXCEPT !.fitted_on =
                          {i \in 1..Len(frame) :
                              frame[i].dataset_type = unique_types[k]}]>>]]

\* fit_group_pipelines on the rows idx of the frame: one new pipeline for
\* every dataset type among them, fitted on the rows of that type
fit_group_pipelines(frame, idx, first_id) ==
    LET unique_types == SortedUnique(DatasetTypes(frame, idx))
    IN  [raised |-> IF unique_types = <<>> THEN "RuntimeError" ELSE None,
         pipelines |->
            [k \in 1..Len(unique_types) |->
                <<unique_types[k],
                  [build_preprocessor(unique_types[k], first_id + k)
                      EXCEPT !.fitted_on =
                          {i \in idx : frame[i].dataset_type = unique_types[k]}]>>]]

prepare_features_fallback(frame, idx, pipelines, ids) ==
    LET order == IndexSeq(idx, Len(frame))
    IN  [raised |-> None,
         X |-> [k \in 1..Len(order) |->
                   [row |-> order[k],
                    pipeline |-> IF frame[order[k]].dataset_type \in Keys(pipelines)
                                 THEN Item(pipelines, frame[order[k]].dataset_type).id
                                 ELSE pipelines[1][2].id,
                    indicator |-> Item(ids, frame[order[k]].dataset_type)]]]

prepare_features_first_group(frame, idx, pipelines, ids) ==
    LET order == IndexSeq(idx, Len(frame))
    IN  [raised |-> None,
         X |-> [k \in 1..Len(order) |->
                   [row |-> order[k],
                    pipeline |-> pipelines[1][2].id,
                    indicator |-> ids[1][2]]]]

\* prepare_features on the rows idx of the frame: for every row the pipeline
\* that transforms it and its type indicator, or KeyError
prepare_features(frame, idx, pipelines, ids) ==
    LET order == IndexSeq(idx, Len(frame))
    IN  IF \E i \in idx : frame[i].dataset_type \notin Keys(pipelines)
        THEN [raised |-> "KeyError", X |-> <<>>]
        ELSE [raised |-> None,
              X |-> [k \in 1..Len(order) |->
                        [row |-> order[k],
                         pipeline |-> Item(pipelines, frame[order[k]].dataset_type).id,
                         indicator |-> Item(ids, frame[order[k]].dataset_type)]]]

train_lightgbm_always(X_train, id) ==
    [id |-> id, kind |-> "LGBMClassifier",
     fitted_on |-> {X_train[k].row : k \in 1..Len(X_train)}]

\* train_lightgbm: None (NoObject) when lightgbm is not installed, else a new
\* classifier fitted on the rows of X_train
train_lightgbm(X_train, id) ==
    IF ~lgb THEN NoObject
    ELSE [id |-> id, kind |-> "LGBMClassifier",
          fitted_on |-> {X_train[k].row : k \in 1..Len(X_train)}]

\* StratifiedKFold(n_splits, shuffle=True).split(features, labels)
Labels(frame) == [i \in 1..Len(frame) |-> frame[i].label]
ClassCount(labels, k) == Cardinality({i \in 1..Len(labels) : labels[i] = k})
\* the classes are numbered in the order they first appear in labels; the
\* class at position j (from 0) of the sorted encoded labels
SortedClass(labels, j) ==
    IF j < ClassCount(labels, labels[1]) THEN labels[1] ELSE 1 - labels[1]
\* how many rows of class k the test set of a fold holds
Allocation(labels, n_splits, fold, k) ==
    Cardinality({j \in 0..(Len(labels) - 1) :
                    j % n_splits = fold - 1 /\ SortedClass(labels, j) = k})
StratifiedKFoldRaises(labels, n_splits) ==
    \/ n_splits > Len(labels)
    \/ \A k \in {labels[i] : i \in 1..Len(labels)} : n_splits > ClassCount(labels, k)
\* the shuffle decides which rows of a class go to which fold
StratifiedKFoldSplits(labels, n_splits) ==
    {[fold \in 1..n_splits |-> {i \in 1..Len(labels) : test_folds[i] = fold}] :
        test_folds \in
            {f \in [1..Len(labels) -> 1..n_splits] :
                \A fold \in 1..n_splits, k \in {0, 1} :
                    Cardinality({i \in 1..Len(labels) : f[i] = fold /\ labels[i] = k})
                        = Allocation(labels, n_splits, fold, k)}}

\* compute_metrics on the held-out rows, whole and per dataset type:
\* roc_auc_score is defined by every build when both classes are present; on
\* a single class a build either raises ValueError or returns a value
MetricsOutcomes(frame, val_idx) ==
    IF \E dtype \in {frame[i].dataset_type : i \in val_idx} \cup {None} :
          Cardinality({frame[i].label :
                          i \in {j \in val_idx :
                                    dtype = None \/ frame[j].dataset_type = dtype}}) < 2
    THEN {None, "ValueError"}
    ELSE {None}

\* joblib.dump keeps the state of an object, not the object
Pickle(object) == [kind |-> object.kind, fitted_on |-> object.fitted_on]
PickleItems(items) ==
    [k \in 1..Len(items) |-> <<items[k][1], Pickle(items[k][2])>>]

\* dump(value, model_dir / name)
Dump(directory, name, content) ==
    IF name \in Keys(directory)
    THEN [k \in 1..Len(directory) |->
            IF directory[k][1] = name THEN <<name, content>> ELSE directory[k]]
    ELSE Append(directory, <<name, content>>)

MODEL_FILENAME == "shared_model.joblib"
PREPROCESSOR_FILENAME == "shared_preprocessors.joblib"

\* save_preprocessors: the bundle
Bundle(pipelines, ids) ==
    << <<"pipelines", PickleItems(pipelines)>>,
       <<"type_to_id", ids>>,
       <<"id_to_type", [k \in 1..Len(ids) |-> <<ids[k][2], ids[k][1]>>]>>,
       <<"feature_columns", FEATURE_COLUMNS>> >>

-----------------------------------------------------------------------------
(* The backend: backend/model_service.py.                                   *)

SHARED_MODEL_FILENAME == "shared_model.joblib"
LegacyBundleFilename == "preprocessors.joblib"
PREPROCESSOR_BUNDLE_FILENAME == "shared_preprocessors.joblib"

\* the backend's own table of source columns, catalog by catalog
FEATURE_MAPS_kepler_columns ==
    << <<"kepler", ModelService_KeplerFeatureMap>>,
       <<"k2", ModelService_KeplerFeatureMap>>,
       <<"toi", ModelService_KeplerFeatureMap>>,
       <<"tess", ModelService_KeplerFeatureMap>> >>

FEATURE_MAPS ==
    << <<"kepler", ModelService_KeplerFeatureMap>>,
       <<"k2", ModelService_TOI_K2_FEATURE_MAP>>,
       <<"toi", ModelService_TOI_K2_FEATURE_MAP>>,
       <<"tess", ModelService_TOI_K2_FEATURE_MAP>> >>

DATASET_TYPE_MAP ==
    << <<"kepler", "kepler">>,
       <<"k2", "toi_k2">>,
       <<"toi", "toi_k2">>,
       <<"tess", "toi_k2">> >>

\* the value of an expression, evaluated once
The(singleton_set) == CHOOSE value \in singleton_set : TRUE

\* dict.get(key, default)
Get(items, key, default) ==
    IF key \in Keys(items) THEN Item(items, key) ELSE default

ModelService_init_lenient(directory) ==
    [state |-> "loaded", raised |-> None,
     model |-> Get(directory, SHARED_MODEL_FILENAME, NoModel),
     pipelines |-> Get(Get(directory, PREPROCESSOR_BUNDLE_FILENAME, <<>>),
                       "pipelines", <<>>),
     type_to_id |-> Get(Get(directory, PREPROCESSOR_BUNDLE_FILENAME, <<>>),
                        "type_to_id", <<>>),
     feature_columns |-> ModelService_FEATURE_COLUMNS]

\* ModelService.__init__ on a model directory: the service, or the exception
\* _load_artifacts raised (no service object then)
ModelService_init(directory) ==
    IF SHARED_MODEL_FILENAME \notin Keys(directory)
    THEN [NoService EXCEPT !.state = "raised", !.raised = "FileNotFoundError"]
    ELSE IF PREPROCESSOR_BUNDLE_FILENAME \notin Keys(directory)
    THEN [NoService EXCEPT !.state = "raised", !.raised = "FileNotFoundError"]
    ELSE
    LET model == Item(directory, SHARED_MODEL_FILENAME)
        bundle == Item(directory, PREPROCESSOR_BUNDLE_FILENAME)
        pipelines == Get(bundle, "pipelines", <<>>)
        ids == Get(bundle, "type_to_id", <<>>)
        feature_columns == Get(bundle, "feature_columns", ModelService_FEATURE_COLUMNS)
    IN  IF pipelines = <<>> \/ ids = <<>> \/ model = NoModel
        THEN [NoService EXCEPT !.state = "raised", !.raised = "ValueError"]
        ELSE [state |-> "loaded", raised |-> None, model |-> model,
              pipelines |-> pipelines, type_to_id |-> ids,
              feature_columns |-> feature_columns]

\* raw_row[source] without the test  source in raw_row : NoFloat stands for
\* the KeyError
FeatureOfRowUnguarded(df, k, source) ==
    IF source \in df.columns
    THEN ModelService_safe_float(df.rows[k][source])
    ELSE NoFloat

\* _prepare_features, one cell: the source column coerced, NaN when the
\* table has no such column
FeatureOfRow(df, k, source) ==
    IF source \in df.columns
    THEN ModelService_safe_float(df.rows[k][source])
    ELSE NaN

\* ModelService._prepare_features: for every row of df the values of
\* feature_columns, in that order
ModelService_prepare_features(feature_columns, df, format_name) ==
    IF format_name \notin Keys(FEATURE_MAPS)
    THEN [raised |-> "ValueError", rows |-> <<>>]
    ELSE
    LET feature_map == Item(FEATURE_MAPS, format_name)
        records == [k \in 1..Len(df.rows) |->
                    [j \in 1..Len(feature_columns) |->
                        IF feature_columns[j] \in Keys(feature_map)
                        THEN FeatureOfRow(df, k, Item(feature_map, feature_columns[j]))
                        ELSE NaN]]
    IN  IF \E k \in 1..Len(records) : \E j \in 1..Len(feature_columns) :
               records[k][j] = NoFloat
        THEN [raised |-> "KeyError", rows |-> <<>>]
        ELSE [raised |-> None, rows |-> records]

\* a lookup that falls back on the first group of the bundle
LookupGroupFallback(svc, dataset_type) ==
    [raised |-> None,
     pipeline |-> Get(svc.pipelines, dataset_type, svc.pipelines[1][2]),
     type_index |-> Get(svc.type_to_id, dataset_type, 0)]

\* ModelService.predict: the pipeline and the id of the dataset type, or
\* KeyError
LookupGroup(svc, dataset_type) ==
    IF dataset_type \notin Keys(svc.pipelines)
    THEN [raised |-> "KeyError", pipeline |-> NoModel, type_index |-> NoClass]
    ELSE IF dataset_type \notin Keys(svc.type_to_id)
    THEN [raised |-> "KeyError", pipeline |-> NoModel, type_index |-> NoClass]
    ELSE [raised |-> None,
          pipeline |-> Item(svc.pipelines, dataset_type),
          type_index |-> Item(svc.type_to_id, dataset_type)]

\* pipeline.transform(features_df): SimpleImputer rejects an empty table and
\* an infinite value, replaces every NaN by the median it learned, and the
\* scaler rescales; a cell of the result is the rescaled value or the
\* rescaled median of the fitted pipeline
Transform(pipeline, features) ==
    IF features = <<>>
    THEN [raised |-> "ValueError", X |-> <<>>]
    ELSE IF \E k \in 1..Len(features) : \E j \in 1..Len(features[k]) :
                features[k][j] \in {Inf, NegInf}
    THEN [raised |-> "ValueError", X |-> <<>>]
    ELSE [raised |-> None,
          X |-> [k \in 1..Len(features) |->
                    [by |-> [kind |-> pipeline.kind, fitted_on |-> pipeline.fitted_on],
                     cells |-> [j \in 1..Len(features[k]) |->
                                  IF IsNaN(features[k][j])
                                  THEN [imputed |-> TRUE, value |-> NoFloat]
                                  ELSE [imputed |-> FALSE, value |-> features[k][j]]]]]]

\* ModelService.predict stopped by an exception before the model was queried
QueryStopped(error, done, candidate_threshold, confirmed_threshold) ==
    [raised |-> error, steps |-> done,
     candidate_threshold |-> candidate_threshold,
     confirmed_threshold |-> confirmed_threshold,
     model |-> NoModel, features_prepared |-> <<>>]

\* ModelService.predict from pipeline.transform to the query of the model
QueryTransformed(svc, candidate_threshold, confirmed_threshold, group, transformed) ==
    IF transformed.raised # None
    THEN QueryStopped(transformed.raised,
                      <<"thresholds", "_prepare_features", "dataset_type", "lookup",
                        "transform">>,
                      candidate_threshold, confirmed_threshold)
    ELSE IF svc.model = NoModel
    THEN QueryStopped("RuntimeError",
                      <<"thresholds", "_prepare_features", "dataset_type", "lookup",
                        "transform">>,
                      candidate_threshold, confirmed_threshold)
    ELSE [raised |-> None,
          steps |-> <<"thresholds", "_prepare_features", "dataset_type", "lookup",
                      "transform", "predict_proba">>,
          candidate_threshold |-> candidate_threshold,
          confirmed_threshold |-> confirmed_threshold,
          model |-> [kind |-> svc.model.kind, fitted_on |-> svc.model.fitted_on],
          features_prepared |->
              [k \in 1..Len(transformed.X) |->
                  [transformed |-> transformed.X[k],
                   type_indicator |-> group.type_index]]]

\* ModelService.predict from the lookup of the group on
QueryPrepared(svc, candidate_threshold, confirmed_threshold, format_name, features_df) ==
    IF features_df.raised # None
    THEN QueryStopped(features_df.raised, <<"thresholds", "_prepare_features">>,
                      candidate_threshold, confirmed_threshold)
    ELSE IF Get(DATASET_TYPE_MAP, format_name, None) = None
    THEN QueryStopped("ValueError",
                      <<"thresholds", "_prepare_features", "dataset_type">>,
                      candidate_threshold, confirmed_threshold)
    ELSE The({IF group.raised # None
              THEN QueryStopped(group.raised,
                                <<"thresholds", "_prepare_features", "dataset_type",
                                  "lookup">>,
                                candidate_threshold, confirmed_threshold)
              ELSE The({QueryTransformed(svc, candidate_threshold,
                                         confirmed_threshold, group, transformed) :
                           transformed \in {Transform(group.pipeline,
                                                      features_df.rows)}}) :
                 group \in {LookupGroup(svc, Get(DATASET_TYPE_MAP, format_name, None))}})

\* ModelService.predict up to the query of the model: the statements run, the
\* thresholds, and the matrix predict_proba is called on
PredictQuery(svc, df, format_name, hyperparams) ==
    LET candidate_threshold == Get(hyperparams, "candidate_threshold", R(2, 5))
        confirmed_threshold == Get(hyperparams, "confirmed_threshold", R(7, 10))
    IN  IF RLe(confirmed_threshold, candidate_threshold)
        THEN QueryStopped("ValueError", <<"thresholds">>,
                          candidate_threshold, confirmed_threshold)
        ELSE The({QueryPrepared(svc, candidate_threshold, confirmed_threshold,
                                format_name, features_df) :
                     features_df \in {ModelService_prepare_features(
                                          svc.feature_columns, df, format_name)}})

-----------------------------------------------------------------------------
(* train_models, statement by statement.                                   *)

\* how many rows the three mission files yield together at most
MaxRows == 4
\* the values of TrainConfig.n_splits
SplitCounts == {2}

AllNumbers(ms) == [column \in Values(ms.feature_map) |-> <<"3", ".", "5">>]

\* labels of the training files: a positive, a negative and a candidate one of
\* each catalog
TrainingLabels ==
    {<<"C", "O", "N", "F", "I", "R", "M", "E", "D">>,
     <<"F", "A", "L", "S", "E", " ", "P", "O", "S", "I", "T", "I", "V", "E">>,
     <<"C", "A", "N", "D", "I", "D", "A", "T", "E">>,
     <<"C", "P">>, <<"F", "P">>, <<"P", "C">>}

\* the rows load_mission keeps of the catalog, one for every label it knows
TrainingRowsOf ==
    [i \in 1..Len(MISSION_SPECS) |->
        LET ms == MISSION_SPECS[i]
            kept == {load_mission(ms, <<MakeRecord(ms, <<"1">>, label, AllNumbers(ms))>>) :
                        label \in TrainingLabels}
        IN  {frame[1] : frame \in kept \ {<<>>}}]

FramesUpTo(i, n) == UNION {[1..k -> TrainingRowsOf[i]] : k \in 0..n}

\* what load_mission returns for the three files
Datasets ==
    UNION {UNION {{<<first, second, third>> :
                      third \in FramesUpTo(3, MaxRows - Len(first) - Len(second))} :
                  second \in FramesUpTo(2, MaxRows - Len(first))} :
           first \in FramesUpTo(1, MaxRows)}

TrainerUnchanged ==
    UNCHANGED <<policyVars, loaderVars, coerceVars, serviceVars, singletonVars>>

\* an exception leaves train_models
TrainRaises(error) == pc' = "raised" /\ raised' = error

\* train_models: data = load_training_frame(...)
LoadFrame ==
    /\ pc = "load_training_frame"
    /\ \E missions \in {load_all_missions(datasets)} :
       \E result \in {load_training_frame(missions.frames, config.include_candidates)} :
           IF missions.raised # None
           THEN TrainRaises(missions.raised) /\ UNCHANGED data
           ELSE IF result.raised # None
           THEN TrainRaises(result.raised) /\ UNCHANGED data
           ELSE data' = result.frame /\ pc' = "type_to_id" /\ UNCHANGED raised
    /\ UNCHANGED <<lgb, config, datasets, type_to_id, split, folds, final, files, created>>
    /\ TrainerUnchanged

\* train_models: unique_types = sorted(set(dataset_types)) and type_to_id
AssignTypeIds ==
    /\ pc = "type_to_id"
    /\ type_to_id' = TypeToId(DatasetTypes(data, 1..Len(data)))
    /\ pc' = "split"
    /\ UNCHANGED <<lgb, config, datasets, data, split, folds, final, files, created, raised>>
    /\ TrainerUnchanged

\* cross_validate_shared_model: splitter.split(features, labels)
SplitFolds ==
    /\ pc = "split"
    /\ IF StratifiedKFoldRaises(Labels(data), config.n_splits)
       THEN TrainRaises("ValueError") /\ UNCHANGED split
       ELSE /\ split' \in StratifiedKFoldSplits(Labels(data), config.n_splits)
            /\ pc' = "fold"
            /\ UNCHANGED raised
    /\ UNCHANGED <<lgb, config, datasets, data, type_to_id, folds, final, files, created>>
    /\ TrainerUnchanged

\* cross_validate_shared_model: one turn of the loop over the folds; when
\* train_lightgbm returns None the function returns ([], {}) and train_models
\* raises RuntimeError
CrossValidateFold ==
    /\ pc = "fold"
    /\ \E fold_idx \in {Len(folds) + 1} :
       \E val_idx \in {split[fold_idx]} :
       \E train_idx \in {(1..Len(data)) \ val_idx} :
       \E fitted \in {fit_group_pipelines(data, train_idx, created)} :
       \E train \in {prepare_features(data, train_idx, fitted.pipelines, type_to_id)} :
       \E val \in {prepare_features(data, val_idx, fitted.pipelines, type_to_id)} :
       \E model \in {train_lightgbm(train.X, created + Len(fitted.pipelines) + 1)} :
           IF fitted.raised # None
           THEN TrainRaises(fitted.raised) /\ UNCHANGED <<folds, created>>
           ELSE IF train.raised # None \/ val.raised # None
           THEN /\ TrainRaises("KeyError")
                /\ created' = created + Len(fitted.pipelines)
                /\ UNCHANGED folds
           ELSE IF model = NoObject
           THEN /\ TrainRaises("RuntimeError")
                /\ created' = created + Len(fitted.pipelines)
                /\ UNCHANGED folds
           ELSE /\ created' = created + Len(fitted.pipelines) + 1
                /\ \E outcome \in MetricsOutcomes(data, val_idx) :
                      IF outcome # None
                      THEN TrainRaises(outcome) /\ UNCHANGED folds
                      ELSE /\ folds' = Append(folds,
                                  [train_idx |-> train_idx,
                                   val_idx |-> val_idx,
                                   pipelines |-> fitted.pipelines,
                                   model |-> model,
                                   X_train |-> train.X,
                                   X_val |-> val.X,
                                   evaluated |-> {val.X[k].row : k \in 1..Len(val.X)}])
                           /\ pc' = IF fold_idx = config.n_splits
                                    THEN "final_fit" ELSE "fold"
                           /\ UNCHANGED raised
    /\ UNCHANGED <<lgb, config, datasets, data, type_to_id, split, final, files>>
    /\ TrainerUnchanged

\* train_models: the pipelines and the model fitted on every row
FinalFit ==
    /\ pc = "final_fit"
    /\ \E every \in {1..Len(data)} :
       \E fitted \in {fit_group_pipelines(data, every, created)} :
       \E X_all \in {prepare_features(data, every, fitted.pipelines, type_to_id)} :
       \E final_model \in
              {train_lightgbm(X_all.X, created + Len(fitted.pipelines) + 1)} :
           IF fitted.raised # None
           THEN TrainRaises(fitted.raised) /\ UNCHANGED <<final, created>>
           ELSE IF X_all.raised # None
           THEN /\ TrainRaises(X_all.raised)
                /\ created' = created + Len(fitted.pipelines)
                /\ UNCHANGED final
           ELSE IF final_model = NoObject
           THEN /\ TrainRaises("RuntimeError")
                /\ created' = created + Len(fitted.pipelines)
                /\ UNCHANGED final
           ELSE /\ final' = [pipelines |-> fitted.pipelines, model |-> final_model,
                             X_all |-> X_all.X]
                /\ created' = created + Len(fitted.pipelines) + 1
                /\ pc' = "save_shared_model"
                /\ UNCHANGED raised
    /\ UNCHANGED <<lgb, config, datasets, data, type_to_id, split, folds, files>>
    /\ TrainerUnchanged

\* save_shared_model
SaveSharedModel ==
    /\ pc = "save_shared_model"
    /\ files' = Dump(files, MODEL_FILENAME, Pickle(final.model))
    /\ pc' = "save_preprocessors"
    /\ UNCHANGED <<lgb, config, datasets, data, type_to_id, split, folds, final,
                   created, raised>>
    /\ TrainerUnchanged

\* save_preprocessors, and train_models returns
SavePreprocessors ==
    /\ pc = "save_preprocessors"
    /\ files' = Dump(files, PREPROCESSOR_FILENAME, Bundle(final.pipelines, type_to_id))
    /\ pc' = "returned"
    /\ UNCHANGED <<lgb, config, datasets, data, type_to_id, split, folds, final,
                   created, raised>>
    /\ TrainerUnchanged

\* get_model_service: the backend constructs its ModelService on the model
\* directory, once train_models has returned if it is the one writing there
LoadArtifacts ==
    /\ pc \in {None, "returned"}
    /\ service.state = "none"
    /\ service' = ModelService_init(files)
    /\ UNCHANGED <<request, response, oracle, replay>>
    /\ UNCHANGED <<policyVars, loaderVars, coerceVars, trainerVars, singletonVars>>

NextTrainer ==
    \/ LoadFrame
    \/ AssignTypeIds
    \/ SplitFolds
    \/ CrossValidateFold
    \/ FinalFit
    \/ SaveSharedModel
    \/ SavePreprocessors
    \/ LoadArtifacts

\* train_models is about to run on some files, with or without lightgbm
InitTrainer ==
    /\ lgb \in BOOLEAN
    /\ config \in [include_candidates : BOOLEAN, n_splits : SplitCounts]
    /\ datasets \in Datasets
    /\ data = <<>>
    /\ type_to_id = <<>>
    /\ split = <<>>
    /\ folds = <<>>
    /\ final = NoFinal
    /\ files = <<>>
    /\ created = 0
    /\ pc = "load_training_frame"
    /\ raised = None
    /\ IdlePolicy
    /\ IdleLoader
    /\ IdleCoerce
    /\ IdleService
    /\ IdleSingleton

SpecTrainer == InitTrainer /\ [][NextTrainer]_vars

-----------------------------------------------------------------------------
(* The backend serving predictions from a model directory.                  *)

\* how many rows a table handed to predict holds at most
MaxBatch == 2

\* a model directory as train_models leaves it after training on rows of
\* the given dataset types, one row each
TrainedDirectory(types) ==
    LET pipelines ==
            [k \in 1..Len(types) |->
                <<types[k],
                  [build_preprocessor(types[k], k) EXCEPT !.fitted_on = {k}]>>]
        model == [id |-> Len(types) + 1, kind |-> "LGBMClassifier",
                  fitted_on |-> 1..Len(types)]
    IN  Dump(Dump(<<>>, MODEL_FILENAME, Pickle(model)),
             PREPROCESSOR_FILENAME,
             Bundle(pipelines, TypeToId(types)))

\* the directories the backend may be started on: empty, half written,
\* trained on one group or on both, and bundles written by other hands (a
\* group without id, no pipelines)
Directories ==
    {<<>>,
     Dump(<<>>, MODEL_FILENAME,
          Pickle([id |-> 1, kind |-> "LGBMClassifier", fitted_on |-> {1}])),
     TrainedDirectory(<<"kepler">>),
     TrainedDirectory(<<"toi_k2">>),
     TrainedDirectory(<<"kepler", "toi_k2">>),
     Dump(TrainedDirectory(<<"kepler", "toi_k2">>), PREPROCESSOR_FILENAME,
          << <<"pipelines",
               Item(Item(TrainedDirectory(<<"kepler", "toi_k2">>),
                         PREPROCESSOR_FILENAME), "pipelines")>>,
             <<"type_to_id", << <<"kepler", 0>> >> >> >>),
     Dump(TrainedDirectory(<<"kepler">>), PREPROCESSOR_FILENAME,
          << <<"pipelines", <<>> >>, <<"type_to_id", << <<"kepler", 0>> >> >> >>)}

\* what a cell of the table may hold
CellValues ==
    {NoneValue,
     StrValue(<<"n", "/", "a">>),
     StrValue(<<"3", ".", "5">>),
     FloatValue(NaN),
     StrValue(<<"i", "n", "f">>)}

ColumnSets ==
    {{}, {"koi_period"}, Values(KeplerFeatureMap), Values(ToiK2FeatureMap)}

\* the rows of a table with these columns: every cell alike, or the period
\* alone given
FrameRows(columns) ==
    {[c \in columns |-> v] : v \in CellValues}
        \cup {[c \in columns |->
                 IF c \in {"koi_period", "pl_orbper"}
                 THEN StrValue(<<"3", ".", "5">>) ELSE NoneValue]}

Frames ==
    UNION {UNION {{[columns |-> columns, rows |-> rs] :
                      rs \in [1..n -> FrameRows(columns)]} : n \in 0..MaxBatch} :
              columns \in ColumnSets}

Formats == {"kepler", "k2", "toi", "tess", "K2"}

HyperparamSets ==
    {<<>>,
     << <<"candidate_threshold", R(1, 5)>>, <<"confirmed_threshold", R(3, 5)>> >>,
     << <<"candidate_threshold", R(0, 1)>>, <<"confirmed_threshold", R(1, 1)>> >>,
     << <<"candidate_threshold", R(7, 10)>>, <<"confirmed_threshold", R(2, 5)>> >>,
     << <<"candidate_threshold", R(4, 5)>> >>}

\* model.predict_proba(features_prepared)[:, 1]: a probability for every
\* row; the model is a function of the row, so rows that are alike get the
\* same probability, in this call and in every call before (memo holds the
\* rows the model was asked about and what it answered)
ModelOutputs == {R(1, 5), R(11, 20), R(9, 10)}
predict_proba(features_prepared, memo) ==
    {p \in [1..Len(features_prepared) -> ModelOutputs] :
        /\ \A i, j \in 1..Len(features_prepared) :
              features_prepared[i] = features_prepared[j] => p[i] = p[j]
        /\ \A i \in 1..Len(features_prepared) : \A seen \in memo :
              seen[1] = features_prepared[i] => p[i] = seen[2]}

\* result_df.replace([np.nan, np.inf, -np.inf], None)
ReplaceNonFinite(x) == IF x \in NonFinite THEN NoFloat ELSE x

\* range(1, n + 1)
Range1(n) == [k \in 1..n |-> k]

CallerTableInPlace(df, result_columns) == [df EXCEPT !.columns = result_columns]

\* result_df = df.copy(): the columns are added to the copy, the caller's
\* table keeps its own
CallerTable(df, result_columns) == df

\* ModelService.predict when a statement before the query of the model raised
PredictStopped(query) ==
    [state |-> "raised", raised |-> query.raised, steps |-> query.steps,
     features_prepared |-> query.features_prepared,
     probabilities |-> <<>>, classes |-> <<>>, confidences |-> <<>>, ids |-> <<>>,
     columns |-> {}]

\* ModelService.predict from the probabilities on: classes, confidences, the
\* copy of the table with the three columns added
PredictResult(query, df, probabilities) ==
    LET policy == [k \in 1..Len(probabilities) |->
                      decision_policy(probabilities[k], query.candidate_threshold,
                                      query.confirmed_threshold)]
        classes == [k \in 1..Len(policy) |-> policy[k].class]
    IN  IF \E k \in 1..Len(policy) : policy[k].raised # None
        THEN [PredictStopped(query) EXCEPT !.raised = "ValueError"]
        ELSE [state |-> "returned", raised |-> None,
              steps |-> Append(query.steps, "classes"),
              features_prepared |-> query.features_prepared,
              probabilities |-> probabilities,
              classes |-> classes,
              confidences |-> [k \in 1..Len(policy) |->
                                  ReplaceNonFinite(policy[k].confidence)],
              ids |-> Range1(Len(classes)),
              columns |-> {"id"} \cup df.columns
                              \cup {"predicted_class", "predicted_confidence"}]

\* ModelService.predict(df, format_name, hyperparams): what it returns or
\* raises, and what the model has been asked by then
PredictOutcomes(svc, memo, df, format_name, hyperparams) ==
    UNION {IF query.raised # None
           THEN {[response |-> PredictStopped(query), oracle |-> memo]}
           ELSE {[response |-> PredictResult(query, df, probabilities),
                  oracle |-> memo \cup {<<query.features_prepared[k], probabilities[k]>> :
                                           k \in 1..Len(probabilities)}] :
                    probabilities \in predict_proba(query.features_prepared, memo)} :
           query \in {PredictQuery(svc, df, format_name, hyperparams)}}

\* the first call of ModelService.predict(df, format_name, hyperparams), the
\* arguments being drawn from the sets given
PredictOn(tables, format_names, hyperparam_sets) ==
    /\ service.state = "loaded"
    /\ response.state = "none"
    /\ \E df \in tables, format_name \in format_names, hyperparams \in hyperparam_sets :
          \E outcome \in PredictOutcomes(service, oracle, df, format_name, hyperparams) :
              /\ request' = [format_name |-> format_name,
                             hyperparams |-> hyperparams,
                             df |-> CallerTable(df, outcome.response.columns)]
              /\ response' = outcome.response
              /\ oracle' = outcome.oracle
    /\ UNCHANGED <<service, replay>>
    /\ UNCHANGED <<policyVars, loaderVars, coerceVars, trainerVars, singletonVars>>

Predict == PredictOn(Frames, Formats, HyperparamSets)

\* the tables a caller sends again: kepler or k2 / toi columns, every row
\* with each cell a number, with the period alone, or with each cell infinite
RepeatRows(columns) ==
    {[c \in columns |-> StrValue(<<"3", ".", "5">>)],
     [c \in columns |-> StrValue(<<"i", "n", "f">>)],
     [c \in columns |->
         IF c \in {"koi_period", "pl_orbper"}
         THEN StrValue(<<"3", ".", "5">>) ELSE NoneValue]}
RepeatTablesOf(columns) ==
    UNION {{[columns |-> columns, rows |-> rs] :
               rs \in [1..n -> RepeatRows(columns)]} : n \in 0..MaxBatch}
RepeatTables ==
    RepeatTablesOf(Values(KeplerFeatureMap)) \cup RepeatTablesOf(Values(ToiK2FeatureMap))
RepeatFormats == {"kepler", "toi", "K2"}
RepeatHyperparamSets ==
    {<<>>,
     << <<"candidate_threshold", R(7, 10)>>, <<"confirmed_threshold", R(2, 5)>> >>}

\* the first call of predict of a caller who calls again
PredictFirst == PredictOn(RepeatTables, RepeatFormats, RepeatHyperparamSets)

\* a call of predict with the rows, catalog and thresholds of the first call
PredictAgain ==
    /\ service.state = "loaded"
    /\ response.state # "none"
    /\ \E outcome \in PredictOutcomes(service, oracle, request.df,
                                      request.format_name, request.hyperparams) :
          /\ request' = [request EXCEPT
                            !.df = CallerTable(request.df, outcome.response.columns)]
          /\ replay' = outcome.response
          /\ oracle' = outcome.oracle
    /\ UNCHANGED <<service, response>>
    /\ UNCHANGED <<policyVars, loaderVars, coerceVars, trainerVars, singletonVars>>

\* the table of another caller: one kepler row with the period alone
OtherTable ==
    [columns |-> Values(KeplerFeatureMap),
     rows |-> <<[c \in Values(KeplerFeatureMap) |->
                   IF c = "koi_period" THEN StrValue(<<"3", ".", "5">>)
                   ELSE NoneValue]>>]

\* a call of predict by another caller, between the calls of the first one
PredictOther ==
    /\ service.state = "loaded"
    /\ response.state # "none"
    /\ \E outcome \in PredictOutcomes(service, oracle, OtherTable, "kepler", <<>>) :
          oracle' = outcome.oracle
    /\ UNCHANGED <<service, request, response, replay>>
    /\ UNCHANGED <<policyVars, loaderVars, coerceVars, trainerVars, singletonVars>>

NextService ==
    \/ LoadArtifacts
    \/ Predict

\* the backend is about to start on some model directory
InitService ==
    /\ files \in Directories
    /\ lgb = FALSE
    /\ config = [include_candidates |-> FALSE, n_splits |-> 0]
    /\ datasets = <<>>
    /\ data = <<>>
    /\ type_to_id = <<>>
    /\ split = <<>>
    /\ folds = <<>>
    /\ final = NoFinal
    /\ created = 0
    /\ pc = None
    /\ raised = None
    /\ IdlePolicy
    /\ IdleLoader
    /\ IdleCoerce
    /\ IdleService
    /\ IdleSingleton

SpecService == InitService /\ [][NextService]_vars

\* the backend serving one caller again and again, and another caller
NextRepeat ==
    \/ LoadArtifacts
    \/ PredictFirst
    \/ PredictAgain
    \/ PredictOther

SpecRepeat == InitService /\ [][NextRepeat]_vars

\* training files whose rows are in turn a confirmed planet and a false
\* positive
Alternating(frame) ==
    \A k \in 1..Len(frame) : frame[k].label = k % 2 /\ ~frame[k].is_candidate
PipelineDatasets == {d \in Datasets : \A i \in 1..Len(d) : Alternating(d[i])}

\* train_models is about to run with lightgbm on such files; the backend
\* starts on the directory it writes and serves a caller
InitPipeline ==
    /\ InitTrainer
    /\ lgb
    /\ ~config.include_candidates
    /\ datasets \in PipelineDatasets

NextPipeline ==
    \/ NextTrainer
    \/ PredictFirst

SpecPipeline == InitPipeline /\ [][NextPipeline]_vars

-----------------------------------------------------------------------------
(* Claims about the decision policy, checked under SpecPolicy.             *)

ConfidenceCalls ==
    {"common.compute_confidence", "model_service.compute_confidence",
     "decision_policy"}
ClassCalls ==
    {"inference.assign_class", "ModelService._assign_class", "decision_policy"}

ValidThresholds == RGt(call.confirmed_threshold, call.candidate_threshold)
IsNumber(x) == x # NoFloat /\ x \notin NonFinite
InUnitInterval(x) == IsNumber(x) /\ RLe(Zero, x) /\ RLe(x, One)
ClampUnit(x) == IF RLt(x, Zero) THEN Zero ELSE IF RLt(One, x) THEN One ELSE x
\* |x - y| <= tol
Within(x, y, tol) == RLe(RSub(x, y), tol) /\ RLe(RSub(y, x), tol)
DefaultThresholds ==
    /\ call.candidate_threshold = R(2, 5)
    /\ call.confirmed_threshold = R(7, 10)

\* C1: for every probability (finite or not) and every pair of thresholds with
\* confirmed_threshold > candidate_threshold, the decision policy returns
\* without raising, with a class in {0,1,2} and a confidence in [0,1].
C1_ClassAndConfidenceInRange ==
    ValidThresholds =>
        /\ call.fn \in ConfidenceCalls =>
              ret.raised = None /\ InUnitInterval(ret.confidence)
        /\ call.fn \in ClassCalls => ret.class \in {0, 1, 2}

\* a probability above 1 went through the whole policy
C1_Witness ==
    /\ call.fn = "decision_policy"
    /\ call.probability = R(6, 5)
    /\ DefaultThresholds
    /\ ret.class = 2
    /\ ret.confidence = One

\* C2: with confirmed_threshold > candidate_threshold, a finite probability p
\* gets class 2 exactly when p >= confirmed_threshold, class 1 exactly when
\* candidate_threshold <= p < confirmed_threshold, class 0 exactly when
\* p < candidate_threshold.
C2_ClassAssignment ==
    (call.fn \in ClassCalls /\ ValidThresholds /\ IsNumber(call.probability)) =>
        LET p == call.probability
            c == call.candidate_threshold
            f == call.confirmed_threshold
        IN  /\ ret.class = 2 <=> RGe(p, f)
            /\ ret.class = 1 <=> (RLe(c, p) /\ RLt(p, f))
            /\ ret.class = 0 <=> RLt(p, c)

\* a probability exactly on the candidate threshold is a candidate, and one
\* exactly on the confirmed threshold is confirmed
C2_Witness ==
    /\ call.fn = "ModelService._assign_class"
    /\ ValidThresholds
    /\ call.probability = call.confirmed_threshold
    /\ ret.class = 2

\* the four-branch formula as the specification words it
ReferenceConfidence(p, c, f) ==
    LET midpoint == RAdd(c, RDiv(RSub(f, c), Two))
        bump(r) == RMul(RMul(Four, r), RSub(One, r))
        v == IF RLt(p, c)
             THEN (IF RLe(c, Zero) THEN One ELSE RSub(One, RDiv(p, c)))
             ELSE IF RLt(p, midpoint)
             THEN bump(RDiv(RSub(p, c), RSub(midpoint, c)))
             ELSE IF RLt(p, f)
             THEN bump(RDiv(RSub(p, midpoint), RSub(f, midpoint)))
             ELSE (IF RGe(f, One) THEN One
                   ELSE RDiv(RSub(p, f), RSub(One, f)))
    IN  ClampUnit(v)

\* C3: for valid thresholds and a probability in [0,1], both copies of
\* compute_confidence return the value of the four-branch reference formula
\* (midpoint = candidate + (confirmed - candidate)/2), clamped to [0,1].
C3_MatchesReferenceFormula ==
    (/\ call.fn \in ConfidenceCalls
     /\ ValidThresholds
     /\ InUnitInterval(call.probability)) =>
        /\ ret.raised = None
        /\ ret.confidence = ReferenceConfidence(
               call.probability, call.candidate_threshold,
               call.confirmed_threshold)

\* p = 0.6 with thresholds (0.4, 0.7) lies in the upper half of the candidate
\* band: ratio 1/3, confidence 8/9
C3_Witness ==
    /\ call.fn = "common.compute_confidence"
    /\ DefaultThresholds
    /\ call.probability = R(3, 5)
    /\ ret.confidence = R(8, 9)

ThresholdsInUnit ==
    /\ InUnitInterval(call.candidate_threshold)
    /\ InUnitInterval(call.confirmed_threshold)

\* between two probabilities Eps apart the confidence moves by at most this
\* much where it is continuous: its slope is at most 8 / (confirmed -
\* candidate) <= 8 * GridDen
JumpTolerance == R(4, EpsDiv)

\* C4: for all thresholds in [0,1] with confirmed_threshold >
\* candidate_threshold (confirmed_threshold = 1 and candidate_threshold = 0
\* included), the confidence at p = candidate_threshold, p = midpoint and
\* p = confirmed_threshold is 0, and so is, up to the slope, the confidence
\* just below and just above each of these points: there is no jump.
C4_NoJumpAtBoundaries ==
    (/\ call.fn \in ConfidenceCalls
     /\ ValidThresholds
     /\ ThresholdsInUnit
     /\ IsNumber(call.probability)) =>
        LET c == call.candidate_threshold
            f == call.confirmed_threshold
            m == RAdd(c, RDiv(RSub(f, c), Two))
        IN  \A x \in {c, m, f} :
                /\ call.probability = x => ret.confidence = Zero
                /\ call.probability \in {RSub(x, Eps), RAdd(x, Eps)} =>
                       RLe(ret.confidence, JumpTolerance)

\* the same statement with confirmed_threshold = 1 left out
C4_NoJumpBelowOne ==
    RLt(call.confirmed_threshold, One) => C4_NoJumpAtBoundaries

\* C5: a threshold pair with confirmed_threshold <= candidate_threshold is
\* always rejected: compute_confidence raises for every probability, finite
\* or not.
C5_InvalidThresholdsRaise ==
    (/\ call.fn \in {"common.compute_confidence",
                     "model_service.compute_confidence"}
     /\ ~ValidThresholds) =>
        ret.raised = "ValueError" /\ ret.confidence = NoFloat

\* what holds of compute_confidence: it raises for every finite probability
C5_InvalidThresholdsRaiseFinite ==
    IsNumber(call.probability) => C5_InvalidThresholdsRaise

\* C6: with thresholds (0.4, 0.7), p = 0.2 yields class 0 with confidence
\* exactly 1/2, and p = 0.5 yields class 1 with confidence 8/9, which is
\* 0.8889 to four decimals.
C6_Examples ==
    DefaultThresholds =>
        /\ (call.fn \in ConfidenceCalls /\ call.probability = R(1, 5)) =>
               ret.confidence = R(1, 2)
        /\ (call.fn \in ClassCalls /\ call.probability = R(1, 5)) =>
               ret.class = 0
        /\ (call.fn \in ConfidenceCalls /\ call.probability = R(1, 2)) =>
               /\ ret.confidence = R(8, 9)
               /\ Within(ret.confidence, R(8889, 10000), R(5, 100000))
        /\ (call.fn \in ClassCalls /\ call.probability = R(1, 2)) =>
               ret.class = 1

C6_Witness ==
    /\ call.fn = "decision_policy"
    /\ DefaultThresholds
    /\ call.probability = R(1, 2)
    /\ ret.class = 1
    /\ ret.confidence = R(8, 9)

\* C7 as claimed: with thresholds (0.4, 0.7), p = 0.75 yields class 2 with
\* confidence 0.8333 to four decimals.
C7_AsClaimed ==
    (DefaultThresholds /\ call.probability = R(3, 4)) =>
        /\ call.fn \in ClassCalls => ret.class = 2
        /\ call.fn \in ConfidenceCalls =>
               Within(ret.confidence, R(8333, 10000), R(5, 100000))

\* C7: with thresholds (0.4, 0.7), p = 0.75 yields class 2 with confidence
\* (0.75 - 0.7) / (1 - 0.7) = 1/6, which is 0.1667 to four decimals.
C7_Example ==
    (DefaultThresholds /\ call.probability = R(3, 4)) =>
        /\ call.fn \in ClassCalls => ret.class = 2
        /\ call.fn \in ConfidenceCalls =>
               /\ ret.confidence = R(1, 6)
               /\ Within(ret.confidence, R(1667, 10000), R(5, 100000))

C7_Witness ==
    /\ call.fn = "common.compute_confidence"
    /\ DefaultThresholds
    /\ call.probability = R(3, 4)
    /\ ret.confidence = R(1, 6)

\* C8: for valid thresholds compute_confidence never raises and never leaves
\* [0,1]; a non-finite probability gets confidence 0, and a finite probability
\* outside [0,1] gets the confidence of the nearest end of [0,1].
C8_OutOfRangeProbability ==
    (call.fn \in ConfidenceCalls /\ ValidThresholds) =>
        /\ ret.raised = None
        /\ InUnitInterval(ret.confidence)
        /\ call.probability \in NonFinite => ret.confidence = Zero
        /\ (IsNumber(call.probability) /\ ~InUnitInterval(call.probability)) =>
               ret.confidence = ReferenceConfidence(
                   ClampUnit(call.probability), call.candidate_threshold,
                   call.confirmed_threshold)

\* an infinite probability was given to compute_confidence
C8_Witness ==
    /\ call.fn = "common.compute_confidence"
    /\ ValidThresholds
    /\ call.probability = Inf
    /\ ret.raised = None
    /\ ret.confidence = Zero

-----------------------------------------------------------------------------
(* Claims about the loader, checked under SpecLoader.                      *)

LabelSets(ms) == ms.positive_labels \cup ms.negative_labels \cup ms.candidate_labels
SpecNamed(name) ==
    MISSION_SPECS[CHOOSE i \in 1..Len(MISSION_SPECS) : MISSION_SPECS[i].name = name]
CurrentSpec == MISSION_SPECS[spec]
\* the step is a turn of load_mission's loop, on the record raw'
RecordRead == line' = line + 1
\* the label of the record, trimmed and uppercased, is empty or in none of
\* the catalog's three label sets
UnrecognisedLabel(ms, record) == LabelValue(ms, record) \notin LabelSets(ms)
\* every one of the 14 canonical features of the record is missing
NoFeature(ms, record) ==
    LET features == ExtractFeatures(ms, record)
    IN  \A feature \in DOMAIN features : features[feature] = NaN
RowsOf(frame) == {frame[i] : i \in 1..Len(frame)}
\* every row held anywhere: the frame being built, the frames of the
\* missions, the combined training frame
AllRows ==
    RowsOf(rows) \cup UNION {RowsOf(frames[i][2]) : i \in 1..Len(frames)}
        \cup RowsOf(training.frame)

\* C9: a record whose label (trimmed, uppercased) is empty or in none of the
\* catalog's label sets leaves the frame of load_mission as it was, and no row
\* of a mission frame or of the combined training frame (from which the folds
\* and the final matrix are taken) carries such a label; every training row
\* comes from a mission frame.
C9_UnrecognisedLabelDropped ==
    /\ [][(RecordRead /\ UnrecognisedLabel(CurrentSpec, raw')) => rows' = rows]_vars
    /\ [](\A row \in AllRows :
             /\ row.disposition # <<>>
             /\ row.disposition \in LabelSets(SpecNamed(row.mission)))
    /\ [](\A row \in RowsOf(training.frame) :
             \E i \in 1..Len(frames) : row \in RowsOf(frames[i][2]))

\* after one record was kept, a record with every feature present and an
\* unknown label was read and dropped
C9_Witness ==
    /\ line = 2
    /\ Len(rows) = 1
    /\ raw # NoRecord
    /\ UnrecognisedLabel(CurrentSpec, raw)
    /\ LabelValue(CurrentSpec, raw) # <<>>
    /\ PassesDefaultFlag(CurrentSpec, raw)
    /\ ~NoFeature(CurrentSpec, raw)

\* C10: for every catalog and label, a record whose 14 features are all
\* missing after extraction leaves the frame as it was and no row of a frame
\* has all features missing; a record with a feature present, a recognised
\* label and the default flag where required is appended to the frame with its
\* extracted features.
C10_AllMissingDropped ==
    /\ [][RecordRead =>
            /\ rows' # rows => ~NoFeature(CurrentSpec, raw')
            /\ (/\ ~UnrecognisedLabel(CurrentSpec, raw')
                /\ PassesDefaultFlag(CurrentSpec, raw')) =>
                   \A features \in {ExtractFeatures(CurrentSpec, raw')} :
                       IF \A feature \in DOMAIN features : features[feature] = NaN
                       THEN rows' = rows
                       ELSE /\ Len(rows') = Len(rows) + 1
                            /\ SubSeq(rows', 1, Len(rows)) = rows
                            /\ rows'[Len(rows')].features = features
                            /\ rows'[Len(rows')].mission = CurrentSpec.name]_vars
    /\ [](\A row \in AllRows :
             \E feature \in DOMAIN row.features : row.features[feature] # NaN)

\* after one record was kept, a record with a recognised label, the default
\* flag set and no feature at all was read and dropped
C10_Witness ==
    /\ line = 2
    /\ Len(rows) = 1
    /\ raw # NoRecord
    /\ NoFeature(CurrentSpec, raw)
    /\ ~UnrecognisedLabel(CurrentSpec, raw)
    /\ PassesDefaultFlag(CurrentSpec, raw)
    /\ CurrentSpec.requires_default_flag

\* the lookup the specification describes: negative, then positive, then
\* candidate
LookupNegativeFirst(ms, label_value) ==
    IF label_value \in ms.negative_labels THEN <<0, FALSE>>
    ELSE IF label_value \in ms.positive_labels THEN <<1, FALSE>>
    ELSE IF label_value \in ms.candidate_labels THEN <<1, TRUE>>
    ELSE <<0 - 1, FALSE>>

\* C11: every row kept by load_mission carries the trimmed, uppercased label
\* of its record and the (label, is_candidate) the lookup in the order
\* negative, positive, candidate gives: negative (0, false), positive
\* (1, false), candidate (1, true); the same holds of every row of the mission
\* frames and of the training frame; the three label sets of each of the three
\* catalogs are pairwise disjoint.
C11_LabelResolution ==
    /\ [][(RecordRead /\ rows' # rows) =>
             /\ rows'[Len(rows')].disposition = LabelValue(CurrentSpec, raw')
             /\ <<rows'[Len(rows')].label, rows'[Len(rows')].is_candidate>> =
                    LookupNegativeFirst(CurrentSpec, LabelValue(CurrentSpec, raw'))]_vars
    /\ [](\A row \in AllRows :
             <<row.label, row.is_candidate>> =
                 LookupNegativeFirst(SpecNamed(row.mission), row.disposition))
    /\ [](\A i \in 1..Len(MISSION_SPECS) :
             LET ms == MISSION_SPECS[i]
             IN  /\ ms.negative_labels \cap ms.positive_labels = {}
                 /\ ms.negative_labels \cap ms.candidate_labels = {}
                 /\ ms.positive_labels \cap ms.candidate_labels = {})

\* a negative record and then a candidate record were read and kept
C11_Witness ==
    /\ line = 2
    /\ Len(rows) = 2
    /\ rows[1].label = 0 /\ ~rows[1].is_candidate
    /\ rows[2].label = 1 /\ rows[2].is_candidate
    /\ rows[2].disposition = LabelValue(CurrentSpec, raw)
    /\ rows[2].disposition \in CurrentSpec.candidate_labels

\* default_flag is set: trimmed, it is one of "1", "TRUE", "true"
FlagSet(record) ==
    StrStrip(OrEmpty(RawGet(record, "default_flag"))) \in
        {<<"1">>, <<"T", "R", "U", "E">>, <<"t", "r", "u", "e">>}

\* C12: only k2 requires the default flag; for a catalog that requires it a
\* record whose default_flag is not set is dropped after the flag test alone,
\* with no label resolution and no feature extraction, and whenever the label
\* is resolved the flag test ran first; for a catalog that does not require
\* it the flag is never read and any other flag value gives the same rows.
C12_DefaultFlagGate ==
    /\ [](\A i \in 1..Len(MISSION_SPECS) :
             MISSION_SPECS[i].requires_default_flag <=> MISSION_SPECS[i].name = "k2")
    /\ [][(RecordRead /\ CurrentSpec.requires_default_flag) =>
             /\ steps'[1] = "default_flag"
             /\ \A k \in 2..Len(steps') : steps'[k] # "default_flag"
             /\ ~FlagSet(raw') => (rows' = rows /\ steps' = <<"default_flag">>)]_vars
    /\ [][(RecordRead /\ ~CurrentSpec.requires_default_flag) =>
             /\ \A k \in 1..Len(steps') : steps'[k] # "default_flag"
             /\ \A flag \in FlagCells \ {raw'["default_flag"]} :
                    rows' = load_mission_record(
                                CurrentSpec,
                                [raw' EXCEPT !["default_flag"] = flag], rows)]_vars

\* in the k2 file, after one record was kept, a record with a recognised
\* label and a feature but default_flag "0" was read and dropped at the flag
C12_Witness ==
    /\ line = 2
    /\ Len(rows) = 1
    /\ raw # NoRecord
    /\ CurrentSpec.requires_default_flag
    /\ RawGet(raw, "default_flag") = <<"0">>
    /\ ~UnrecognisedLabel(CurrentSpec, raw)
    /\ ~NoFeature(CurrentSpec, raw)
    /\ steps = <<"default_flag">>

-----------------------------------------------------------------------------
(* get_model_service, statement by statement and caller by caller.          *)

SingletonUnchanged ==
    UNCHANGED <<policyVars, loaderVars, coerceVars, trainerVars,
                request, response, oracle, replay>>

\* a caller enters get_model_service
CallerEnters(c) ==
    /\ callers[c].pc = "idle"
    /\ callers[c].calls < MaxCalls
    /\ callers' = [callers EXCEPT ![c].pc = "test", ![c].raised = None]
    /\ UNCHANGED <<global_model_service, instances, loads, service>>
    /\ SingletonUnchanged

\* if _model_service is None:
CallerTests(c) ==
    /\ callers[c].pc = "test"
    /\ callers' = [callers EXCEPT
                      ![c].pc = IF global_model_service = 0
                                THEN "construct" ELSE "return"]
    /\ UNCHANGED <<global_model_service, instances, loads, service>>
    /\ SingletonUnchanged

\* ModelService(): __init__ runs _load_artifacts on the model directory; an
\* exception leaves get_model_service
CallerConstructs(c) ==
    /\ callers[c].pc = "construct"
    /\ loads' = loads + 1
    /\ service' = ModelService_init(files)
    /\ IF service'.state = "raised"
       THEN /\ callers' = [callers EXCEPT ![c].pc = "idle",
                                          ![c].calls = @ + 1,
                                          ![c].result = 0,
                                          ![c].raised = service'.raised]
            /\ UNCHANGED instances
       ELSE /\ instances' = instances + 1
            /\ callers' = [callers EXCEPT ![c].pc = "assign",
                                          ![c].made = instances + 1]
    /\ UNCHANGED global_model_service
    /\ SingletonUnchanged

\* _model_service = (the object constructed)
CallerAssigns(c) ==
    /\ callers[c].pc = "assign"
    /\ global_model_service' = callers[c].made
    /\ callers' = [callers EXCEPT ![c].pc = "return", ![c].made = 0]
    /\ UNCHANGED <<instances, loads, service>>
    /\ SingletonUnchanged

\* return _model_service
CallerReturns(c) ==
    /\ callers[c].pc = "return"
    /\ callers' = [callers EXCEPT ![c].pc = "idle",
                                  ![c].calls = @ + 1,
                                  ![c].result = global_model_service]
    /\ UNCHANGED <<global_model_service, instances, loads, service>>
    /\ SingletonUnchanged

CallGetModelService == \E c \in Callers : CallerEnters(c)
\* a caller enters get_model_service while no other caller is inside
CallAlone ==
    /\ \A d \in Callers : callers[d].pc = "idle"
    /\ CallGetModelService
TestGlobal == \E c \in Callers : CallerTests(c)
ConstructService == \E c \in Callers : CallerConstructs(c)
AssignGlobal == \E c \in Callers : CallerAssigns(c)
ReturnGlobal == \E c \in Callers : CallerReturns(c)

\* train_models runs to its end on a model directory the service cannot be
\* loaded from, and leaves its two files there
Retrain ==
    /\ ModelService_init(files).state = "raised"
    /\ files' = TrainedDirectory(<<"kepler", "toi_k2">>)
    /\ UNCHANGED <<lgb, config, datasets, data, type_to_id, split, folds, final,
                   created, pc, raised>>
    /\ UNCHANGED <<policyVars, loaderVars, coerceVars, serviceVars, singletonVars>>

\* the backend process starts on some model directory, nothing loaded
InitSingleton == InitService

\* callers on threads of their own
NextSingleton ==
    \/ CallGetModelService
    \/ TestGlobal
    \/ ConstructService
    \/ AssignGlobal
    \/ ReturnGlobal
    \/ Retrain

SpecSingleton == InitSingleton /\ [][NextSingleton]_vars

\* callers one after the other
NextSequential ==
    \/ CallAlone
    \/ TestGlobal
    \/ ConstructService
    \/ AssignGlobal
    \/ ReturnGlobal
    \/ Retrain

SpecSequential == InitSingleton /\ [][NextSequential]_vars

-----------------------------------------------------------------------------
(* Claims about the trainer, checked under SpecTrainer.                    *)

\* the rows of the training frame that are candidates
CandidateRows == {i \in 1..Len(data) : data[i].is_candidate}

\* C14: for both settings of include_candidates, no row with is_candidate set
\* is in the held-out rows of a fold of cross_validate_shared_model, and no
\* metric is computed on such a row.
C14_NoCandidateInValidationFold ==
    /\ \A k \in 1..Len(split) : split[k] \cap CandidateRows = {}
    /\ \A k \in 1..Len(folds) :
          /\ folds[k].val_idx \cap CandidateRows = {}
          /\ folds[k].evaluated \cap CandidateRows = {}

\* what holds: without include_candidates the training frame has no candidate
\* row at all, so none is held out
C14_NoCandidateWhenExcluded ==
    ~config.include_candidates => C14_NoCandidateInValidationFold

\* the estimator objects a fold or the final fit holds
ObjectsOf(pipelines, model) ==
    [k \in 1..(Len(pipelines) + 1) |->
        IF k <= Len(pipelines) THEN pipelines[k][2] ELSE model]
\* every estimator object fitted so far, fold by fold, then the final fit
FittedObjects ==
    Concat([k \in 1..Len(folds) |-> ObjectsOf(folds[k].pipelines, folds[k].model)])
        \o (IF final = NoFinal THEN <<>> ELSE ObjectsOf(final.pipelines, final.model))

\* C15: in every fold the rows a pipeline or the model was fitted on are
\* training rows of that fold and none of them is held out in it; every
\* pipeline and model of every fold and of the final fit is an object of its
\* own, so nothing fitted in one fold serves another fold or the final model.
C15_FoldFitsOnTrainingRowsOnly ==
    /\ \A k \in 1..Len(folds) :
          LET fold == folds[k]
              objects == ObjectsOf(fold.pipelines, fold.model)
          IN  /\ fold.train_idx \cap fold.val_idx = {}
              /\ fold.val_idx = split[k]
              /\ fold.model.fitted_on = fold.train_idx
              /\ \A j \in 1..Len(objects) :
                    /\ objects[j].fitted_on # {}
                    /\ objects[j].fitted_on \subseteq fold.train_idx
                    /\ objects[j].fitted_on \cap fold.val_idx = {}
    /\ LET objects == FittedObjects
       IN  \A i, j \in 1..Len(objects) : i # j => objects[i].id # objects[j].id

\* train_models returned after two folds over four rows of both dataset
\* types and a final fit on all four
C15_Witness ==
    /\ pc = "returned"
    /\ Len(data) = 4
    /\ Len(folds) = 2
    /\ Len(folds[1].pipelines) = 2 /\ Len(folds[2].pipelines) = 2
    /\ folds[1].train_idx # folds[2].train_idx
    /\ folds[1].model.fitted_on # {} /\ folds[2].model.fitted_on # {}
    /\ final.model.fitted_on = 1..Len(data)

\* the bundle save_preprocessors wrote
WrittenBundle == Item(files, PREPROCESSOR_FILENAME)
\* the orders up to MaxRows rows can come in
Orders ==
    {order : order \in
        UNION {{f \in [1..n -> 1..n] : \A i, j \in 1..n : i # j => f[i] # f[j]} :
                  n \in 0..MaxRows}}
\* the column with its rows in that order
Rearranged(column, order) == [i \in 1..Len(column) |-> column[order[i]]]

\* C16: in the bundle train_models wrote, the keys of the pipelines, the keys
\* of type_to_id and the dataset types of the training rows are the same set;
\* the ids are 0..n-1, "kepler" before "toi_k2"; computed from any
\* rearrangement of the training rows the mapping is the same.
C16_GroupIdsDense ==
    [](
        PREPROCESSOR_FILENAME \in Keys(files) =>
            LET pipelines == Item(WrittenBundle, "pipelines")
                ids == Item(WrittenBundle, "type_to_id")
                types == {data[i].dataset_type : i \in 1..Len(data)}
            IN  /\ Keys(pipelines) = types
                /\ Keys(ids) = types
                /\ Values(ids) = 0..(Cardinality(types) - 1)
                /\ Len(ids) = Cardinality(types)
                /\ {"kepler", "toi_k2"} \subseteq types =>
                       Item(ids, "kepler") = 0 /\ Item(ids, "toi_k2") = 1
                /\ \A dataset_types \in {DatasetTypes(data, 1..Len(data))} :
                       \A order \in Orders :
                           Len(order) = Len(dataset_types) =>
                               \A rearranged \in {Rearranged(dataset_types, order)} :
                                   TypeToId(rearranged) = ids)

\* a bundle with both dataset types was written
C16_Witness ==
    /\ pc = "returned"
    /\ PREPROCESSOR_FILENAME \in Keys(files)
    /\ Keys(Item(WrittenBundle, "type_to_id")) = {"kepler", "toi_k2"}
    /\ Len(Item(WrittenBundle, "pipelines")) = 2

\* C17: without lightgbm train_models never returns and never writes a file:
\* it can only stop with an exception raised (RuntimeError from the first
\* fold, unless loading, splitting or preparing the fold raised before);
\* with or without lightgbm a file is written only after every fold of the
\* cross-validation was fitted and evaluated and the final model was fitted,
\* with no exception raised.
C17_NoArtifactOnFailure ==
    /\ ~lgb =>
          /\ files = <<>>
          /\ pc # "returned"
          /\ pc \in {"load_training_frame", "type_to_id", "split", "fold", "raised"}
          /\ folds = <<>>
          /\ final = NoFinal
    /\ pc = "raised" => (files = <<>> /\ raised # None)
    /\ files # <<>> =>
          /\ raised = None
          /\ Len(folds) = config.n_splits
          /\ final # NoFinal
          /\ final.model # NoObject
          /\ final.model.fitted_on = 1..Len(data)

\* without lightgbm the first fold fitted its pipelines, train_lightgbm
\* returned None and train_models raised; nothing was written
C17_Witness ==
    /\ ~lgb
    /\ pc = "raised"
    /\ raised = "RuntimeError"
    /\ split # <<>>
    /\ created > 0
    /\ folds = <<>>
    /\ files = <<>>

-----------------------------------------------------------------------------
(* Claims about the backend's predictions.                                  *)

Ran(statement) == \E k \in 1..Len(response.steps) : response.steps[k] = statement
CandidateThresholdOf(hyperparams) == Get(hyperparams, "candidate_threshold", R(2, 5))
ConfirmedThresholdOf(hyperparams) == Get(hyperparams, "confirmed_threshold", R(7, 10))
GroupOfCatalog(format_name) ==
    CASE format_name = "kepler" -> "kepler"
      [] format_name \in {"k2", "toi", "tess"} -> "toi_k2"
      [] OTHER -> None
GroupMissing(dataset_type) ==
    \/ dataset_type \notin Keys(service.pipelines)
    \/ dataset_type \notin Keys(service.type_to_id)

\* C18: when the dataset type of the requested catalog has no pipeline or no
\* id in the loaded bundle, predict raises, it ran neither transform nor
\* predict_proba and returns no class and no confidence, and the error is
\* KeyError once the thresholds were accepted; whenever predict transformed
\* anything, every row went through the pipeline of that dataset type and
\* carries the id of that dataset type.
C18_MissingGroupFailsHard ==
    response.state # "none" =>
        LET dataset_type == GroupOfCatalog(request.format_name)
        IN  /\ (dataset_type # None /\ GroupMissing(dataset_type)) =>
                  /\ response.state = "raised"
                  /\ ~Ran("transform")
                  /\ ~Ran("predict_proba")
                  /\ response.features_prepared = <<>>
                  /\ response.classes = <<>>
                  /\ response.confidences = <<>>
                  /\ RLt(CandidateThresholdOf(request.hyperparams),
                         ConfirmedThresholdOf(request.hyperparams)) =>
                        response.raised = "KeyError" /\ Ran("lookup")
            /\ Ran("transform") =>
                  /\ dataset_type # None
                  /\ ~GroupMissing(dataset_type)
            /\ \A k \in 1..Len(response.features_prepared) :
                  /\ response.features_prepared[k].transformed.by
                        = Item(service.pipelines, dataset_type)
                  /\ response.features_prepared[k].type_indicator
                        = Item(service.type_to_id, dataset_type)

\* a kepler table was sent to a service whose bundle has no kepler pipeline
C18_Witness ==
    /\ response.state = "raised"
    /\ response.raised = "KeyError"
    /\ request.format_name = "kepler"
    /\ "kepler" \notin Keys(service.pipelines)
    /\ Len(request.df.rows) >= 1
    /\ Ran("lookup")

\* the cell holds a finite number, as a float or as text
CellIsFinite(value) == IsFinite(ModelService_safe_float(value))
\* the cell counts as missing: None, NaN, empty or unparseable text
CellIsMissing(value) == IsNaN(ModelService_safe_float(value))
SourceColumn(format_name, feature) ==
    Item(IF format_name = "kepler" THEN KeplerFeatureMap ELSE ToiK2FeatureMap,
         feature)
\* the feature is missing from row k of the request
FeatureMissing(k, feature) ==
    LET source == SourceColumn(request.format_name, feature)
    IN  \/ source \notin request.df.columns
        \/ CellIsMissing(request.df.rows[k][source])

\* C19: for a catalog the service knows (one of kepler, k2, toi, tess whose
\* dataset type is in the loaded bundle), thresholds with candidate below
\* confirmed, and a table of at least one row whose cells are missing or
\* finite numbers, predict returns; it returns one class in {0, 1, 2} and one
\* confidence in [0, 1] for every row, in whatever columns of the 14 the
\* table has and whatever cells of a row are missing; a feature reaches the
\* model imputed exactly when it is missing from the row.
C19_MissingFeaturesNeverBlock ==
    (/\ response.state # "none"
     /\ GroupOfCatalog(request.format_name) # None
     /\ ~GroupMissing(GroupOfCatalog(request.format_name))
     /\ RLt(CandidateThresholdOf(request.hyperparams),
            ConfirmedThresholdOf(request.hyperparams))
     /\ Len(request.df.rows) >= 1
     /\ \A k \in 1..Len(request.df.rows) : \A c \in request.df.columns :
           CellIsMissing(request.df.rows[k][c]) \/ CellIsFinite(request.df.rows[k][c]))
    =>
        /\ response.state = "returned"
        /\ response.raised = None
        /\ Len(response.classes) = Len(request.df.rows)
        /\ Len(response.confidences) = Len(request.df.rows)
        /\ Len(response.features_prepared) = Len(request.df.rows)
        /\ \A k \in 1..Len(request.df.rows) :
              /\ response.classes[k] \in {0, 1, 2}
              /\ response.confidences[k] # NoFloat
              /\ IsFinite(response.confidences[k])
              /\ RLe(Zero, response.confidences[k])
              /\ RLe(response.confidences[k], One)
              /\ Len(response.features_prepared[k].transformed.cells)
                    = Len(FEATURE_COLUMNS)
              /\ \A j \in 1..Len(FEATURE_COLUMNS) :
                    response.features_prepared[k].transformed.cells[j].imputed
                        <=> FeatureMissing(k, FEATURE_COLUMNS[j])

\* a kepler table with the single column koi_period = "3.5": predict returned
\* a class and a confidence, thirteen features were imputed
C19_Witness ==
    /\ response.state = "returned"
    /\ request.format_name = "kepler"
    /\ request.df.columns = {"koi_period"}
    /\ Len(request.df.rows) = 1
    /\ request.df.rows[1]["koi_period"] = StrValue(<<"3", ".", "5">>)
    /\ Len(response.classes) = 1
    /\ response.classes[1] \in {0, 1, 2}
    /\ response.confidences[1] # NoFloat
    /\ Cardinality({j \in 1..Len(FEATURE_COLUMNS) :
                       response.features_prepared[1].transformed.cells[j].imputed})
          = 13

-----------------------------------------------------------------------------
(* Claims about the artifacts on their way from training to the backend.    *)

\* the objects train_models holds in memory, used as a service would use them
InMemoryService ==
    [state |-> "loaded", raised |-> None, model |-> final.model,
     pipelines |-> final.pipelines, type_to_id |-> type_to_id,
     feature_columns |-> FEATURE_COLUMNS]

\* the fixed input batches: a kepler table of one row with every source
\* column a number, and a k2 / toi table of one row with the period alone
FixedBatches ==
    {[columns |-> Values(KeplerFeatureMap),
      rows |-> <<[c \in Values(KeplerFeatureMap) |-> FloatValue(R(7, 2))]>>],
     [columns |-> Values(ToiK2FeatureMap),
      rows |-> <<[c \in Values(ToiK2FeatureMap) |->
                    IF c = "pl_orbper" THEN FloatValue(R(7, 2)) ELSE NoneValue]>>]}

\* C20: once train_models has returned, a ModelService constructed on the
\* model directory is loaded (the two file names and the bundle keys it
\* reads are the ones written); it holds the state of the final model, the
\* state of the final pipeline of every group under the same key, the same
\* type_to_id and FEATURE_COLUMNS in the same order; and for every fixed
\* batch and catalog, predict on the loaded service stops at the same
\* statement or queries the same model state with the same matrix as
\* predict on the in-memory objects, hence gives the same predictions.
C20_PersistLoadRoundTrip ==
    [](
        (pc = "returned" /\ service.state # "none") =>
            /\ service.state = "loaded"
            /\ Keys(files) = {SHARED_MODEL_FILENAME, PREPROCESSOR_BUNDLE_FILENAME}
            /\ service.model = [kind |-> final.model.kind,
                                fitted_on |-> final.model.fitted_on]
            /\ Len(service.pipelines) = Len(final.pipelines)
            /\ \A k \in 1..Len(final.pipelines) :
                  /\ service.pipelines[k][1] = final.pipelines[k][1]
                  /\ service.pipelines[k][2].kind = final.pipelines[k][2].kind
                  /\ service.pipelines[k][2].fitted_on = final.pipelines[k][2].fitted_on
            /\ service.type_to_id = type_to_id
            /\ service.feature_columns = FEATURE_COLUMNS
            /\ \A loaded \in {service} : \A memory \in {InMemoryService} :
                  \A df \in FixedBatches : \A format_name \in Keys(DATASET_TYPE_MAP) :
                      PredictQuery(loaded, df, format_name, <<>>)
                          = PredictQuery(memory, df, format_name, <<>>))

\* training on both groups returned, the backend loaded the directory, and a
\* kepler batch gets as far as the model
C20_Witness ==
    /\ pc = "returned"
    /\ service.state = "loaded"
    /\ Keys(service.pipelines) = {"kepler", "toi_k2"}
    /\ service.model.fitted_on = 1..Len(data)
    /\ \E df \in FixedBatches :
          PredictQuery(service, df, "kepler", <<>>).raised = None

-----------------------------------------------------------------------------
(* The class and the arm of the confidence formula.                         *)

InUnit(x) == IsFinite(x) /\ RLe(Zero, x) /\ RLe(x, One)

\* C30: for thresholds with confirmed > candidate, the class of a finite
\* probability q >= p is never below the class of p; and for p in [0,1] the
\* arm compute_confidence takes is "below candidate" exactly when the class
\* is 0, one of the two band arms exactly when it is 1, and "confirmed"
\* exactly when it is 2.
C30_ClassMonotoneAndBranchAgrees ==
    (call.fn = "decision_policy" /\ IsFinite(call.probability)) =>
        /\ \A q \in Probabilities :
              (IsFinite(q) /\ RLe(call.probability, q)) =>
                  ModelService_assign_class(q, call.candidate_threshold,
                                            call.confirmed_threshold) >= ret.class
        /\ InUnit(call.probability) =>
              \A branch \in {ModelService_confidence_branch(
                                call.probability, call.candidate_threshold,
                                call.confirmed_threshold)} :
                  /\ branch = "below candidate" <=> ret.class = 0
                  /\ branch \in {"lower band", "upper band"} <=> ret.class = 1
                  /\ branch = "confirmed" <=> ret.class = 2

\* the probability sits exactly on the confirmed threshold, inside [0,1]
C30_Witness ==
    /\ call.fn = "decision_policy"
    /\ InUnit(call.probability)
    /\ call.probability = call.confirmed_threshold
    /\ RLt(Zero, call.candidate_threshold)
    /\ ret.class = 2

-----------------------------------------------------------------------------
(* What the scoring entry points report as predicted_confidence.            *)

\* the decision-policy confidence of the call's probability and thresholds
PolicyConfidence ==
    ModelService_compute_confidence(call.probability, call.candidate_threshold,
                                    call.confirmed_threshold).value

\* C23: whenever ModelService.predict or run_inference has scored a
\* probability of [0,1] with thresholds confirmed > candidate, the
\* predicted_confidence it reports is the decision-policy confidence of that
\* probability and those thresholds.
C23_ConfidenceIsPolicyConfidence ==
    (/\ call.fn \in {"decision_policy", "run_inference"}
     /\ ret.raised = None
     /\ InUnit(call.probability)) =>
        ret.confidence = PolicyConfidence

\* the same for ModelService.predict alone
C23_ServiceConfidenceIsPolicyConfidence ==
    (/\ call.fn = "decision_policy"
     /\ ret.raised = None
     /\ InUnit(call.probability)) =>
        ret.confidence = PolicyConfidence

-----------------------------------------------------------------------------
(* Which rows the final fit and the persisted artifacts were fitted on.     *)

\* every row load_mission returned, in the order of the missions
LoadedRows == Concat(datasets)
\* the rows of a frame that belong to a dataset type
RowsOfType(frame, dtype) == {i \in 1..Len(frame) : frame[i].dataset_type = dtype}
\* the objects of a list of (dataset type, estimator) are fitted on the rows
\* of their own dataset type, and there is one per type of the frame
FittedPerGroup(items) ==
    /\ Keys(items) = {data[i].dataset_type : i \in 1..Len(data)}
    /\ \A k \in 1..Len(items) :
          items[k][2].fitted_on = RowsOfType(data, items[k][1])

\* C24: once load_training_frame returned, the training frame holds the loaded
\* rows in order, all of them with include_candidates and the ones that are
\* not candidates without it, so candidate rows are in it if and only if
\* include_candidates is set; the final model is fitted on every row of the
\* frame and the final and the saved pipelines on every row of their group;
\* without include_candidates no candidate row is in a fold or in the final
\* fit.
C24_FinalFitOnLoadedFrame ==
    [](
        /\ pc \notin {"load_training_frame", "raised"} =>
              \A kept \in {SelectSeq(LoadedRows,
                                     LAMBDA row : config.include_candidates
                                                  \/ ~row.is_candidate)} :
                  /\ data = [i \in 1..Len(kept) |-> SelectColumns(kept[i])]
                  /\ (\E i \in 1..Len(LoadedRows) : LoadedRows[i].is_candidate) =>
                        (CandidateRows # {} <=> config.include_candidates)
        /\ CandidateRows # {} => config.include_candidates
        /\ final # NoFinal =>
              /\ final.model.fitted_on = 1..Len(data)
              /\ FittedPerGroup(final.pipelines)
        /\ MODEL_FILENAME \in Keys(files) =>
              Item(files, MODEL_FILENAME).fitted_on = 1..Len(data)
        /\ PREPROCESSOR_FILENAME \in Keys(files) =>
              FittedPerGroup(Item(WrittenBundle, "pipelines"))
        /\ ~config.include_candidates =>
              /\ \A k \in 1..Len(folds) :
                    /\ (folds[k].train_idx \cup folds[k].val_idx) \cap CandidateRows = {}
                    /\ \A dtype \in Keys(folds[k].pipelines) :
                          ~\E i \in Item(folds[k].pipelines, dtype).fitted_on :
                              data[i].is_candidate
                    /\ ~\E i \in folds[k].model.fitted_on : data[i].is_candidate
              /\ ~\E i \in final.model.fitted_on : data[i].is_candidate)

\* train_models returned with include_candidates, the final model and a saved
\* pipeline being fitted on a candidate row among others
C24_Witness ==
    /\ pc = "returned"
    /\ config.include_candidates
    /\ \E i \in final.model.fitted_on : data[i].is_candidate
    /\ \E i \in final.model.fitted_on : ~data[i].is_candidate
    /\ \E k \in 1..Len(Item(WrittenBundle, "pipelines")) :
          \E i \in Item(WrittenBundle, "pipelines")[k][2].fitted_on :
              data[i].is_candidate

-----------------------------------------------------------------------------
(* What fit_group_pipelines fits.                                           *)

\* the pipelines are one new object per dataset type among the rows idx of
\* the training frame, each fitted on the rows of idx of its type and built
\* with the scaler of its type
OnePerGroup(pipelines, idx) ==
    /\ Keys(pipelines) = {data[i].dataset_type : i \in idx}
    /\ Len(pipelines) = Cardinality(Keys(pipelines))
    /\ \A k \in 1..Len(pipelines) :
          /\ pipelines[k][2].fitted_on = idx \cap RowsOfType(data, pipelines[k][1])
          /\ \A j \in 1..Len(pipelines) :
                j # k => pipelines[j][2].id # pipelines[k][2].id
          /\ pipelines[k][1] = "kepler" => pipelines[k][2].kind = "StandardScaler"
          /\ pipelines[k][1] = "toi_k2" => pipelines[k][2].kind = "RobustScaler"

\* C25: every call of fit_group_pipelines, in a fold or in the final fit,
\* returns exactly one preprocessor per dataset type present among its rows,
\* fitted on the rows of that type and on no other row; the kepler pipeline is
\* a median imputer followed by a standard scaler, the toi_k2 pipeline a
\* median imputer followed by a robust scaler over the 10th-90th percentiles.
C25_OnePreprocessorPerGroup ==
    /\ \A k \in 1..Len(folds) : OnePerGroup(folds[k].pipelines, folds[k].train_idx)
    /\ final # NoFinal => OnePerGroup(final.pipelines, 1..Len(data))
    /\ PreprocessorSteps("kepler") =
          << <<"imputer", [estimator |-> "SimpleImputer", strategy |-> "median"]>>,
             <<"scaler", [estimator |-> "StandardScaler"]>> >>
    /\ PreprocessorSteps("toi_k2") =
          << <<"imputer", [estimator |-> "SimpleImputer", strategy |-> "median"]>>,
             <<"scaler", [estimator |-> "RobustScaler",
                          quantile_range |-> <<10, 90>>]>> >>

\* a fold fitted a kepler and a toi_k2 pipeline on different rows, while a
\* row of one of the groups was held out
C25_Witness ==
    /\ Len(folds) >= 1
    /\ Keys(folds[1].pipelines) = {"kepler", "toi_k2"}
    /\ Item(folds[1].pipelines, "kepler").kind = "StandardScaler"
    /\ Item(folds[1].pipelines, "toi_k2").kind = "RobustScaler"
    /\ Item(folds[1].pipelines, "kepler").fitted_on # {}
    /\ Item(folds[1].pipelines, "toi_k2").fitted_on # {}
    /\ \E i \in folds[1].val_idx : data[i].dataset_type = "kepler"

-----------------------------------------------------------------------------
(* Calling predict again, checked under SpecRepeat.                         *)

\* the columns predict adds to its result
AddedColumns == {"id", "predicted_class", "predicted_confidence"}
\* the rows of the matrix the first call queried the model with
FirstQueried == {response.features_prepared[k] : k \in 1..Len(response.features_prepared)}

-----------------------------------------------------------------------------
(* Row by row: what prepare_features and predict write, checked under      *)
(* SpecPipeline.                                                            *)

\* X is what prepare_features gives for the rows idx of the training frame
\* with these pipelines: row k of X is made from the k-th row of idx, by the
\* one pipeline fitted for the dataset type of that row, with the id of that
\* type
PreparedRowByRow(X, idx, pipelines) ==
    \A order \in {IndexSeq(idx, Len(data))} :
        /\ Len(X) = Cardinality(idx)
        /\ \A k \in 1..Len(X) :
              /\ X[k].row = order[k]
              /\ \E j \in 1..Len(pipelines) :
                    /\ pipelines[j][1] = data[order[k]].dataset_type
                    /\ pipelines[j][2].id = X[k].pipeline
                    /\ \A i \in 1..Len(pipelines) :
                          pipelines[i][2].id = X[k].pipeline => i = j
              /\ \E j \in 1..Len(type_to_id) :
                    /\ type_to_id[j][1] = data[order[k]].dataset_type
                    /\ type_to_id[j][2] = X[k].indicator

\* row k of the matrix predict built is made from row k of the request: its
\* 14 cells are the features of that row in canonical order, transformed by
\* the pipeline of the group of the catalog, followed by the id of the group
ServedRowByRow ==
    \A group \in {GroupOfCatalog(request.format_name)} :
        /\ Len(response.features_prepared) = Len(request.df.rows)
        /\ \A k \in 1..Len(request.df.rows) :
              \A made \in {response.features_prepared[k]} :
                 /\ made.transformed.by = Item(service.pipelines, group)
                 /\ made.type_indicator = Item(service.type_to_id, group)
                 /\ Len(made.transformed.cells) = 14
                 /\ \A j \in 1..14 :
                       \A source \in {SourceColumn(request.format_name,
                                                   FEATURE_COLUMNS[j])} :
                          IF FeatureMissing(k, FEATURE_COLUMNS[j])
                          THEN made.transformed.cells[j].imputed
                          ELSE /\ ~made.transformed.cells[j].imputed
                               /\ made.transformed.cells[j].value =
                                     ModelService_safe_float(request.df.rows[k][source])

\* C26: in every fold (training and held-out rows) and in the final fit,
\* prepare_features returns one row per input row, in the order of the input,
\* each made by the pipeline of the row's own dataset type with the id of that
\* type; when predict returns, its matrix has one row per row of the request
\* at the same position, made of the 14 transformed features of that row and
\* the id of the catalog's group, and the result has one class and one
\* confidence per row, those of the probability the model gave for that row
\* of the matrix, with ids 1..N.
C26_EveryRowWrittenInPlace ==
    /\ \A k \in 1..Len(folds) :
          /\ PreparedRowByRow(folds[k].X_train, folds[k].train_idx, folds[k].pipelines)
          /\ PreparedRowByRow(folds[k].X_val, folds[k].val_idx, folds[k].pipelines)
    /\ final # NoFinal => PreparedRowByRow(final.X_all, 1..Len(data), final.pipelines)
    /\ response.state = "returned" =>
          /\ ServedRowByRow
          /\ Len(response.classes) = Len(request.df.rows)
          /\ Len(response.confidences) = Len(request.df.rows)
          /\ Len(response.ids) = Len(request.df.rows)
          /\ \A k \in 1..Len(request.df.rows) :
                /\ response.ids[k] = k
                /\ <<response.features_prepared[k], response.probabilities[k]>> \in oracle
                /\ response.classes[k] =
                      ModelService_assign_class(response.probabilities[k],
                                                CandidateThresholdOf(request.hyperparams),
                                                ConfirmedThresholdOf(request.hyperparams))
                /\ response.confidences[k] =
                      ModelService_compute_confidence(
                          response.probabilities[k],
                          CandidateThresholdOf(request.hyperparams),
                          ConfirmedThresholdOf(request.hyperparams)).value

\* a fold held out rows of both groups and trained on rows of both, and the
\* backend loaded from the written files scored a table of two different
\* rows into two different classes
C26_Witness ==
    /\ pc = "returned"
    /\ Len(folds) = 2
    /\ Len(folds[1].pipelines) = 2
    /\ \E i, j \in folds[1].val_idx : data[i].dataset_type # data[j].dataset_type
    /\ \E i, j \in 1..Len(folds[1].X_train) :
          folds[1].X_train[i].pipeline # folds[1].X_train[j].pipeline
    /\ response.state = "returned"
    /\ Len(request.df.rows) = 2
    /\ request.df.rows[1] # request.df.rows[2]
    /\ response.classes[1] # response.classes[2]
    /\ request.format_name = "toi"

-----------------------------------------------------------------------------
(* The harmonisation of serving against that of training.                   *)

\* the keys of a dict literal, in the order they are written
KeysInOrder(items) == [k \in 1..Len(items) |-> items[k][1]]
\* the MissionSpec of a catalog the trainer loads
MissionSpecOf(name) ==
    MISSION_SPECS[CHOOSE i \in 1..Len(MISSION_SPECS) : MISSION_SPECS[i].name = name]
TrainingCatalogs == {MISSION_SPECS[i].name : i \in 1..Len(MISSION_SPECS)}

\* C27: the backend's FEATURE_COLUMNS is the trainer's, in the same order;
\* the trainer's catalogs are kepler, k2 and toi, and for each of them the
\* backend's FEATURE_MAPS entry equals the MissionSpec's feature_map, its
\* DATASET_TYPE_MAP entry equals the MissionSpec's dataset_type, and the keys
\* of the map are the 14 canonical names in canonical order; so whenever
\* predict has built its matrix for one of these catalogs, every cell that is
\* not imputed is the value of the raw column the trainer reads for that
\* feature, and the pipeline and the id are those of the MissionSpec's group.
C27_ServingHarmonisesAsTraining ==
    /\ ModelService_FEATURE_COLUMNS = FEATURE_COLUMNS
    /\ Len(FEATURE_COLUMNS) = 14
    /\ TrainingCatalogs = {"kepler", "k2", "toi"}
    /\ \A name \in TrainingCatalogs :
          /\ name \in Keys(FEATURE_MAPS)
          /\ name \in Keys(DATASET_TYPE_MAP)
          /\ Item(FEATURE_MAPS, name) = MissionSpecOf(name).feature_map
          /\ Item(DATASET_TYPE_MAP, name) = MissionSpecOf(name).dataset_type
          /\ KeysInOrder(Item(FEATURE_MAPS, name)) = FEATURE_COLUMNS
          /\ KeysInOrder(MissionSpecOf(name).feature_map) = FEATURE_COLUMNS
    /\ (Ran("predict_proba") /\ request.format_name \in TrainingCatalogs) =>
          \A ms \in {MissionSpecOf(request.format_name)} :
              \A k \in 1..Len(response.features_prepared) :
                  \A made \in {response.features_prepared[k]} :
                      /\ made.transformed.by = Item(service.pipelines, ms.dataset_type)
                      /\ made.type_indicator = Item(service.type_to_id, ms.dataset_type)
                      /\ \A j \in 1..Len(FEATURE_COLUMNS) :
                            \A source \in {Item(ms.feature_map, FEATURE_COLUMNS[j])} :
                                ~made.transformed.cells[j].imputed =>
                                    /\ source \in request.df.columns
                                    /\ made.transformed.cells[j].value =
                                          ModelService_safe_float(
                                              request.df.rows[k][source])

\* predict returned for a k2 table whose period, the column pl_orbper, reached
\* the model as it was given while the other features were imputed
C27_Witness ==
    /\ response.state = "returned"
    /\ request.format_name = "k2"
    /\ Len(response.features_prepared) >= 1
    /\ ~response.features_prepared[1].transformed.cells[1].imputed
    /\ response.features_prepared[1].transformed.cells[2].imputed
    /\ "pl_orbper" \in request.df.columns

-----------------------------------------------------------------------------
(* A fold whose held-out rows have a group its training rows lack.          *)

\* the dataset types among the rows idx of the training frame
TypesAmong(idx) == {data[i].dataset_type : i \in idx}
\* fold f of the split holds out a dataset type that none of its training
\* rows has
Uncovered(f) ==
    ~(TypesAmong(split[f]) \subseteq TypesAmong((1..Len(data)) \ split[f]))

\* C29: when the fold cross_validate_shared_model has come to holds out a
\* dataset type absent from its training rows, train_models has stopped
\* with KeyError, no file was written and no final fit was made; every fold
\* that was completed held out only types its training rows have, and each
\* of its held-out rows was transformed by the pipeline of its own type.
C29_UncoveredGroupAborts ==
    /\ \A k \in 1..Len(folds) :
          /\ ~Uncovered(k)
          /\ \A r \in 1..Len(folds[k].X_val) :
                \A made \in {folds[k].X_val[r]} :
                    /\ made.row \in folds[k].val_idx
                    /\ data[made.row].dataset_type \in Keys(folds[k].pipelines)
                    /\ made.pipeline =
                          Item(folds[k].pipelines, data[made.row].dataset_type).id
    /\ (/\ Len(folds) < Len(split)
        /\ Uncovered(Len(folds) + 1)
        /\ pc # "fold") =>
            /\ pc = "raised"
            /\ raised = "KeyError"
            /\ files = <<>>
            /\ final = NoFinal

\* with lightgbm installed, the first fold was completed and the second one,
\* holding out a group its training rows lack, stopped train_models
C29_Witness ==
    /\ lgb
    /\ Len(folds) = 1
    /\ Len(split) = 2
    /\ Uncovered(2)
    /\ pc = "raised"
    /\ raised = "KeyError"
    /\ files = <<>>

-----------------------------------------------------------------------------
(* The process-wide ModelService.                                           *)

\* the objects the callers' last calls returned
Obtained == {callers[c].result : c \in Callers} \ {0}

\* C21: however the callers of get_model_service interleave, at most one
\* ModelService object is constructed from artifacts that load, and no two
\* callers are returned different objects.
C21_LoadedOnceSameInstance ==
    /\ instances <= 1
    /\ Cardinality(Obtained) <= 1

\* the artifacts of the directory cannot be loaded: a file is absent, or the
\* bundle has no pipelines or no group ids
LoadFails(directory) ==
    \/ "shared_model.joblib" \notin Keys(directory)
    \/ "shared_preprocessors.joblib" \notin Keys(directory)
    \/ Get(Item(directory, "shared_preprocessors.joblib"), "pipelines", <<>>) = <<>>
    \/ Get(Item(directory, "shared_preprocessors.joblib"), "type_to_id", <<>>) = <<>>

\* the caller leaves get_model_service in this step
Leaves(c) == callers[c].pc # "idle" /\ callers'[c].pc = "idle"

\* C28: with the callers one after the other: a call that finds the global
\* unset runs the load; when the artifacts cannot be loaded the call raises
\* FileNotFoundError or ValueError and the global stays unset, so the next
\* call runs the load again; once the global is set it never changes, no load
\* is run any more, and every call that ends returns the object it refers to.
C28_FailedLoadRetriedLoadedKept ==
    /\ [](/\ instances <= 1
          /\ \A c \in Callers :
                callers[c].result # 0 => callers[c].result = global_model_service)
    /\ [][\A c \in Callers :
             /\ (callers[c].pc = "test" /\ callers'[c].pc # "test"
                 /\ global_model_service = 0) =>
                    callers'[c].pc = "construct"
             /\ (callers[c].pc = "construct" /\ callers'[c].pc # "construct") =>
                    /\ loads' = loads + 1
                    /\ IF LoadFails(files)
                       THEN /\ Leaves(c)
                            /\ callers'[c].raised \in {"FileNotFoundError", "ValueError"}
                            /\ callers'[c].result = 0
                            /\ global_model_service' = 0
                       ELSE callers'[c].pc = "assign"]_vars
    /\ [][global_model_service # 0 =>
             /\ global_model_service' = global_model_service
             /\ loads' = loads
             /\ instances' = instances
             /\ \A c \in Callers :
                   Leaves(c) => /\ callers'[c].result = global_model_service
                                /\ callers'[c].raised = None]_vars

\* a first call raised, the artifacts were written, a second call loaded
\* them, and a third call returned the same object without loading
C28_Witness ==
    /\ loads = 2
    /\ instances = 1
    /\ global_model_service = 1
    /\ \A c \in Callers : callers[c].pc = "idle"
    /\ \E c, d \in Callers :
          /\ c # d
          /\ callers[c].calls = 2 /\ callers[c].result = 1
          /\ callers[d].calls = 1 /\ callers[d].result = 1

====
